---- MODULE Spec2Model ----
(***************************************************************************)
(* Run-session lifecycle controller of the Flutter Runner extension        *)
(* (src/src/extension.ts).  The extension host is single threaded: every   *)
(* handler runs until its next await, so an action of this model is one    *)
(* synchronous stretch of one handler, and a task's pc names the await it  *)
(* is suspended at (the source line of the await).                         *)
(*                                                                         *)
(* A call of vscode.commands.executeCommand("setContext", ...) or of       *)
(* workspaceState.update takes effect in call order, so its effect belongs *)
(* to the stretch that makes the call; the await after it is a yield.      *)
(*                                                                         *)
(* Strings the code trims, lower-cases or tests a prefix of are tuples of  *)
(* one-character strings; strings it only compares or stores are TLA+      *)
(* strings.                                                                *)
(***************************************************************************)
EXTENDS Integers, Sequences, FiniteSets, TLC

\* ------------------------------------------------------------------ bounds
MaxProcs == 2      \* child processes that may exist (not yet closed) at once
MaxStarts == 2     \* startFlutterRun invocations before their finally at once
MaxStops == 1      \* stopRun invocations in progress at once
MaxRefresh == 1    \* updateStatusBar invocations in progress at once
MaxScans == 1      \* captureDevToolsUrl invocations suspended at once
MaxTimers == 2     \* timer handles the host tells apart
MaxSelects == 2    \* invocations of selectProfile in progress at once
MaxResolves == 1   \* calls of the project resolver reading the disk at once
MaxClock == 5000   \* the time the clock may reach, in milliseconds
TickMs == 2500     \* the step of the clock, in milliseconds

\* Line 576: the time a cached project folder stays valid, in milliseconds
CacheTtlMs == 5000

\* ------------------------------------------------------------ plain values
None == 0                       \* runProcess === undefined
NoUrl == <<"undefined">>        \* latestDevToolsUrl / latestWebAppUrl unset
NoFolder == "undefined"         \* the resolver found no project folder
Undef == <<"undefined">>        \* an absent string property / non-string value
Throw == <<"throw">>            \* a host command that rejects

\* ------------------------------------------------------- character strings
WhiteSpace == {" ", "\t", "\n", "\r"}

EmptyStr == <<>>

S_run == <<"r", "u", "n">>
S_t == <<"-", "t">>
S_d == <<"-", "d">>
S_flavor == <<"-", "-", "f", "l", "a", "v", "o", "r">>
S_libmain == <<"l", "i", "b", "/", "m", "a", "i", "n", ".", "d", "a", "r", "t">>
S_webserver == <<"w", "e", "b", "-", "s", "e", "r", "v", "e", "r">>
S_chrome == <<"c", "h", "r", "o", "m", "e">>
S_edge == <<"e", "d", "g", "e">>
S_webdash == <<"w", "e", "b", "-">>

\* String.prototype.trim
RECURSIVE TrimLeft(_)
TrimLeft(s) ==
    IF s = <<>> THEN s
    ELSE IF Head(s) \in WhiteSpace THEN TrimLeft(Tail(s)) ELSE s

RECURSIVE TrimRight(_)
TrimRight(s) ==
    IF s = <<>> THEN s
    ELSE IF s[Len(s)] \in WhiteSpace THEN TrimRight(SubSeq(s, 1, Len(s) - 1)) ELSE s

Trim(s) == TrimRight(TrimLeft(s))

\* String.prototype.toLowerCase on the letters the model uses
UpperCase == <<"A", "B", "C", "D", "E", "F", "G", "H", "I", "J", "K", "L", "M",
              "N", "O", "P", "Q", "R", "S", "T", "U", "V", "W", "X", "Y", "Z">>
LowerCase == <<"a", "b", "c", "d", "e", "f", "g", "h", "i", "j", "k", "l", "m",
              "n", "o", "p", "q", "r", "s", "t", "u", "v", "w", "x", "y", "z">>

LowerChar(c) ==
    IF \E i \in 1..26 : UpperCase[i] = c
    THEN LowerCase[CHOOSE i \in 1..26 : UpperCase[i] = c]
    ELSE c

ToLowerCase(s) == [i \in 1..Len(s) |-> LowerChar(s[i])]

\* String.prototype.startsWith
StartsWith(s, prefix) ==
    /\ Len(s) >= Len(prefix)
    /\ SubSeq(s, 1, Len(prefix)) = prefix

\* (value || "") for an optional string property
OrEmpty(s) == IF s = Undef THEN EmptyStr ELSE s

\* (a || b) for strings: the empty string is falsy
OrElse(a, b) == IF a = EmptyStr THEN b ELSE a

\* ---------------------------------------------------------- isWebDeviceId
isWebDeviceId(deviceId) ==
    LET normalized == ToLowerCase(Trim(deviceId))
    IN  \/ normalized = S_chrome
        \/ normalized = S_edge
        \/ normalized = S_webserver
        \/ StartsWith(normalized, S_webdash)

\* ------------------------------------------------------------- profiles
NotAString == "<not a string>"      \* typeof profile.name !== "string"
NoExtra == "<none>"                 \* a profile without extra fields

DefaultProfile ==
    [name |-> "default", dartEntrypoint |-> S_libmain, flavor |-> EmptyStr,
     extra |-> NoExtra]

normalizeProfile(profile) ==
    [profile EXCEPT
        !.dartEntrypoint = OrElse(Trim(OrEmpty(profile.dartEntrypoint)), S_libmain),
        !.flavor = Trim(OrEmpty(profile.flavor))]

\* Lines 521-525 left out: no profile stands in for an empty list.
getProfiles_NoDefault(persisted) ==
    LET IsProfile(profile) == profile.name # NotAString
        valid == SelectSeq(persisted, IsProfile)
    IN  [i \in 1..Len(valid) |-> normalizeProfile(valid[i])]

getProfiles(persisted) ==
    LET IsProfile(profile) == profile.name # NotAString
        valid == SelectSeq(persisted, IsProfile)
        normalized == [i \in 1..Len(valid) |-> normalizeProfile(valid[i])]
    IN  IF Len(normalized) > 0 THEN normalized ELSE <<DefaultProfile>>

\* Line 532 without its find: the first listed profile, whatever the name.
getActiveProfile_First(persisted, activeName) == getProfiles(persisted)[1]

getActiveProfile(persisted, activeName) ==
    LET profiles == getProfiles(persisted)
        hits == {i \in 1..Len(profiles) : profiles[i].name = activeName}
    IN  IF hits # {}
        THEN profiles[CHOOSE i \in hits : \A j \in hits : i <= j]
        ELSE profiles[1]

\* ------------------------------------------------- resolveSelectedDeviceId
\* Lines 734 and 743 without their trim.
CommandDevice_Untrimmed(value) ==
    IF value # Throw /\ value # Undef /\ Len(Trim(value)) > 0
    THEN value ELSE Undef

\* One host command: its result counts when it is a non-blank string.
CommandDevice(value) ==
    IF value # Throw /\ value # Undef /\ Len(Trim(value)) > 0
    THEN Trim(value) ELSE Undef

\* One configuration key: its value counts when it is a non-blank string.
ConfigDevice(candidate) ==
    IF candidate # Undef /\ candidate # EmptyStr /\ Len(Trim(candidate)) > 0
    THEN Trim(candidate) ELSE Undef

resolveSelectedDeviceId(primary, secondary, flutterDeviceId, deviceId) ==
    IF CommandDevice(primary) # Undef THEN CommandDevice(primary)
    ELSE IF CommandDevice(secondary) # Undef THEN CommandDevice(secondary)
    ELSE IF ConfigDevice(flutterDeviceId) # Undef THEN ConfigDevice(flutterDeviceId)
    ELSE ConfigDevice(deviceId)

\* ------------------------------------------ startFlutterRun: the arguments
\* Line 194 without its forceWebInTab test.
runDeviceIdOf_AnyWeb(forceWebInTab, selectedDevice) ==
    IF isWebDeviceId(selectedDevice) THEN S_webserver ELSE selectedDevice

runDeviceIdOf(forceWebInTab, selectedDevice) ==
    IF forceWebInTab /\ isWebDeviceId(selectedDevice)
    THEN S_webserver ELSE selectedDevice

entrypointOf(profile) == OrElse(Trim(OrEmpty(profile.dartEntrypoint)), S_libmain)

flavorOf(profile) == Trim(OrEmpty(profile.flavor))

\* Lines 199 and 200 in the other order.
spawnArgs_DeviceFirst(profile, runDeviceId) ==
    LET entrypoint == entrypointOf(profile)
        flavor == flavorOf(profile)
    IN  <<S_run, S_d, runDeviceId, S_t, entrypoint>>
            \o (IF Len(flavor) > 0 THEN <<S_flavor, flavor>> ELSE <<>>)

spawnArgs(profile, runDeviceId) ==
    LET entrypoint == entrypointOf(profile)
        flavor == flavorOf(profile)
    IN  <<S_run, S_t, entrypoint, S_d, runDeviceId>>
            \o (IF Len(flavor) > 0 THEN <<S_flavor, flavor>> ELSE <<>>)

\* ------------------------------------------------------ output classifier
S_http == <<"h", "t", "t", "p">>
S_https == <<"h", "t", "t", "p", "s">>
S_devtools == <<"d", "e", "v", "t", "o", "o", "l", "s">>
S_slashes == <<":", "/", "/">>

\* F(value), with value computed once however often F uses it
Once(value, F(_)) == CHOOSE result \in {F(v) : v \in {value}} : TRUE

\* the least index i >= from with s[i] \in stop, Len(s) + 1 when there is none
RECURSIVE IndexOfAny(_, _, _)
IndexOfAny(s, stop, from) ==
    IF from > Len(s) THEN Len(s) + 1
    ELSE IF s[from] \in stop THEN from
    ELSE IndexOfAny(s, stop, from + 1)

\* the substring from index from to index to, empty when none
Slice(s, from, to) == IF from > to THEN <<>> ELSE SubSeq(s, from, to)

\* String.prototype.includes
Includes(s, part) ==
    \E i \in 1..(Len(s) - Len(part) + 1) : SubSeq(s, i, i + Len(part) - 1) = part

\* outputChunk.split(/\r?\n/)
RECURSIVE SplitLines(_)
SplitLines(str) ==
    Once(str, LAMBDA text :
        LET nl == IndexOfAny(text, {"\n"}, 1)
        IN  IF nl > Len(text) THEN <<text>>
            ELSE LET end == IF nl > 1 /\ text[nl - 1] = "\r" THEN nl - 2 ELSE nl - 1
                 IN  <<Slice(text, 1, end)>>
                        \o SplitLines(Slice(text, nl + 1, Len(text))))

\* [^\s)] of the two URL patterns (lines 19 and 20)
UrlStop == WhiteSpace \cup {")"}

\* The length of the prefix http:// or https:// (in any letter case) that
\* starts at index i, 0 when there is none.
UrlPrefixAt(s, i) ==
    LET low == ToLowerCase(Slice(s, i, IF i + 7 < Len(s) THEN i + 7 ELSE Len(s)))
    IN  IF StartsWith(low, S_https \o S_slashes) THEN 8
        ELSE IF StartsWith(low, S_http \o S_slashes) THEN 7
        ELSE 0

\* /https?:\/\/[^\s)]+/i matches at index i
UrlMatchAt(s, i) ==
    LET n == UrlPrefixAt(s, i)
    IN  n > 0 /\ i + n <= Len(s) /\ s[i + n] \notin UrlStop

\* text.match(URL_PATTERN_GLOBAL) ?? []: every match from index from on, left
\* to right; line.match(DEVTOOLS_URL_PATTERN) is the first of them.
RECURSIVE UrlMatches(_, _)
UrlMatches(s, from) ==
    IF from > Len(s) THEN <<>>
    ELSE IF UrlMatchAt(s, from)
    THEN Once(IndexOfAny(s, UrlStop, from + UrlPrefixAt(s, from)) - 1,
              LAMBDA end : <<SubSeq(s, from, end)>> \o UrlMatches(s, end + 1))
    ELSE UrlMatches(s, from + 1)

\* new URL(input), for inputs of the form scheme://host[:port][rest] whose
\* host is a name, a dotted quad or a bracketed IPv6 literal written in its
\* shortest form (or the loopback address written in full), and whose rest
\* needs no percent-encoding.
Digits == {"0", "1", "2", "3", "4", "5", "6", "7", "8", "9"}
HexDigits == Digits \cup {"a", "b", "c", "d", "e", "f"}
ForbiddenHost == {"%", "<", ">", "^", "|", "[", "]", "\\", "@"}
S_ipv6loopback == <<"[", ":", ":", "1", "]">>
S_ipv6loopbackFull == <<"[", "0", ":", "0", ":", "0", ":", "0", ":", "0", ":", "0", ":", "0", ":", "1", "]">>
S_ipv4loopback == <<"1", "2", "7", ".", "0", ".", "0", ".", "1">>
S_localhost == <<"l", "o", "c", "a", "l", "h", "o", "s", "t">>

RECURSIVE StripZeros(_)
StripZeros(port) ==
    IF Len(port) > 1 /\ Head(port) = "0" THEN StripZeros(Tail(port)) ELSE port

RECURSIVE SkipSlashes(_, _)
SkipSlashes(s, from) ==
    IF from <= Len(s) /\ s[from] = "/" THEN SkipSlashes(s, from + 1) ELSE from

UrlFailure ==
    [ok |-> FALSE, protocol |-> <<>>, hostname |-> <<>>, port |-> <<>>, rest |-> <<>>]

ParseUrl(url) ==
    Once(url, LAMBDA input :
        LET colon == IndexOfAny(input, {":"}, 1)
            protocol == ToLowerCase(Slice(input, 1, colon - 1))
            start == SkipSlashes(input, colon + 1)
            authEnd == IndexOfAny(input, {"/", "?", "#"}, start) - 1
            authority == Slice(input, start, authEnd)
            rest == Slice(input, authEnd + 1, Len(input))
            bracket == authority # <<>> /\ Head(authority) = "["
            hostEnd == IF bracket THEN IndexOfAny(authority, {"]"}, 1)
                       ELSE IndexOfAny(authority, {":"}, 1) - 1
            host == ToLowerCase(Slice(authority, 1, hostEnd))
            afterHost == Slice(authority, hostEnd + 1, Len(authority))
            port == IF afterHost = <<>> THEN <<>> ELSE Tail(afterHost)
            hostOk ==
                IF bracket
                THEN /\ hostEnd <= Len(authority) /\ Len(host) > 2
                     /\ \A i \in 2..(Len(host) - 1) : host[i] \in HexDigits \cup {":"}
                ELSE /\ host # <<>>
                     /\ \A i \in 1..Len(host) : host[i] \notin ForbiddenHost
            portOk ==
                /\ afterHost # <<>> => Head(afterHost) = ":"
                /\ Len(StripZeros(port)) <= 5
                /\ \A i \in 1..Len(port) : port[i] \in Digits
            default == IF protocol = S_http THEN <<"8", "0">> ELSE <<"4", "4", "3">>
        IN  IF colon > Len(input) \/ protocol = <<>> THEN UrlFailure
            ELSE IF protocol \notin {S_http, S_https}
            THEN [UrlFailure EXCEPT !.ok = TRUE, !.protocol = protocol]
            ELSE IF ~hostOk \/ ~portOk THEN UrlFailure
            ELSE [ok |-> TRUE,
                  protocol |-> protocol,
                  hostname |-> IF host = S_ipv6loopbackFull THEN S_ipv6loopback ELSE host,
                  port |-> IF port = <<>> \/ StripZeros(port) = default THEN <<>>
                           ELSE StripZeros(port),
                  rest |-> IF rest = <<>> \/ Head(rest) # "/" THEN <<"/">> \o rest
                           ELSE rest])

\* URL.prototype.toString
Href(parsed) ==
    parsed.protocol \o S_slashes \o parsed.hostname
        \o (IF parsed.port = <<>> THEN <<>> ELSE <<":">> \o parsed.port)
        \o parsed.rest

sanitizeUrl(candidate) ==
    Once(ParseUrl(candidate), LAMBDA parsed :
        IF ~parsed.ok THEN NoUrl
        ELSE IF parsed.protocol # S_http /\ parsed.protocol # S_https THEN NoUrl
        ELSE Href(parsed))

\* Line 1127 left out: any host will do.
isLocalWebUrl_AnyHost(url) ==
    Once(ParseUrl(url), LAMBDA parsed : parsed.ok /\ parsed.protocol = S_http)

isLocalWebUrl(url) ==
    Once(ParseUrl(url), LAMBDA parsed :
        /\ parsed.ok
        /\ parsed.protocol = S_http
        /\ \/ parsed.hostname = S_ipv4loopback
           \/ parsed.hostname = S_localhost
           \/ parsed.hostname = S_ipv6loopback)

\* Lines 801-803 left out: the marker is not asked for.
DevToolsUrlOf_NoMarker(line) ==
    Once(UrlMatches(line, 1), LAMBDA match :
        IF match = <<>> THEN NoUrl ELSE sanitizeUrl(Head(match)))

\* captureDevToolsUrl, lines 801-811: the URL one line makes it store, NoUrl
\* when the line is passed over
DevToolsUrlOf(line) ==
    Once(UrlMatches(line, 1), LAMBDA match :
        IF ~Includes(ToLowerCase(line), S_devtools) THEN NoUrl
        ELSE IF match = <<>> THEN NoUrl
        ELSE sanitizeUrl(Head(match)))

\* captureDevToolsUrl: the URLs the lines of a chunk make it store, in order
DevToolsUrlsOf(outputChunk) ==
    LET Stored(url) == url # NoUrl
    IN  Once(SplitLines(outputChunk), LAMBDA lines :
            SelectSeq([i \in 1..Len(lines) |-> DevToolsUrlOf(lines[i])], Stored))

\* captureWebAppUrl, lines 822-836: the URL a chunk makes it accept, NoUrl
\* when it accepts none
WebAppUrlOf(outputChunk) ==
    LET Local(url) == url # NoUrl /\ isLocalWebUrl(url)
    IN  Once(UrlMatches(outputChunk, 1), LAMBDA matches :
            Once(SelectSeq([i \in 1..Len(matches) |-> sanitizeUrl(matches[i])], Local),
                 LAMBDA accepted :
                    IF accepted = <<>> THEN NoUrl ELSE Head(accepted)))

\* output chunks
K_devtools == <<"D", "e", "v", "T", "o", "o", "l", "s", ":", " ", "h", "t", "t", "p", ":", "/", "/", "1", "2", "7", ".", "0", ".", "0", ".", "1", ":", "9", "1", "0", "0", "?", "u", "r", "i", "=", "x">>
K_webapp == <<"a", "t", " ", "h", "t", "t", "p", ":", "/", "/", "l", "o", "c", "a", "l", "h", "o", "s", "t", ":", "8", "0", "8", "0">>
K_remote == <<"s", "e", "e", " ", "h", "t", "t", "p", ":", "/", "/", "e", "x", "a", "m", "p", "l", "e", ".", "c", "o", "m">>

Chunks == {K_devtools, K_webapp, K_remote}

\* more output: a remote URL before a local one; an https URL in capitals;
\* three lines with the marker, the second with an invalid first URL; the
\* marker inside the URL; the IPv6 loopback address
K_two == <<"s", "e", "e", " ", "h", "t", "t", "p", ":", "/", "/", "e", "x", "a", "m", "p", "l", "e", ".", "c", "o", "m", " ", "(", "h", "t", "t", "p", ":", "/", "/", "l", "o", "c", "a", "l", "h", "o", "s", "t", ":", "8", "0", "8", "1", ")">>
K_secure == <<"H", "T", "T", "P", "S", ":", "/", "/", "L", "O", "C", "A", "L", "H", "O", "S", "T", ":", "8", "4", "4", "3", "/", "a", "p", "p">>
K_lines == <<"d", "e", "v", "t", "o", "o", "l", "s", " ", "h", "t", "t", "p", ":", "/", "/", "[", ":", ":", "1", "]", ":", "8", "0", "/", "x", "\r", "\n", "d", "e", "v", "T", "o", "o", "l", "s", " ", "h", "t", "t", "p", ":", "/", "/", "%", "/", " ", "h", "t", "t", "p", ":", "/", "/", "a", ".", "b", "\n", "D", "E", "V", "T", "O", "O", "L", "S", " ", "h", "t", "t", "p", "s", ":", "/", "/", "h", ":", "0", "4", "4", "3">>
K_inside == <<"h", "t", "t", "p", ":", "/", "/", "d", "e", "v", "t", "o", "o", "l", "s", ".", "e", "x", "a", "m", "p", "l", "e", ".", "c", "o", "m">>
K_ipv6 == <<"h", "t", "t", "p", ":", "/", "/", "[", "0", ":", "0", ":", "0", ":", "0", ":", "0", ":", "0", ":", "0", ":", "1", "]", ":", "3", "0", "0", "0">>

ScanChunks == {K_devtools, K_two, K_secure, K_lines, K_inside, K_ipv6}

\* what the two scanners make of each chunk
Scanned ==
    [chunk \in Chunks \cup ScanChunks |->
        [stored |-> DevToolsUrlsOf(chunk), accepted |-> WebAppUrlOf(chunk)]]

\* ------------------------------------------------------------ environment
Folders == {"/ws/app"}

\* what the two host commands and the two configuration keys may hold
PrimaryDevices == {Throw, Undef, <<" ", "C", "h", "r", "o", "m", "e", " ">>}
SecondaryDevices == {Throw, EmptyStr, <<"W", "e", "b", "-", "x">>}
FlutterDeviceIds == {Undef, <<" ">>, <<"w", "e", "b", "b", "y">>}
DeviceIds == {Undef, <<"m", "a", "c", "o", "s">>}

DeviceOutcomes ==
    { resolveSelectedDeviceId(a, b, c, d) :
        a \in PrimaryDevices, b \in SecondaryDevices,
        c \in FlutterDeviceIds, d \in DeviceIds }

\* what one call of resolveSelectedDeviceId may be answered and may read
CommandResults ==
    PrimaryDevices \cup SecondaryDevices \cup {<<" ">>, <<"\t", "a", "\n">>}
ConfigValues == FlutterDeviceIds \cup DeviceIds \cup {EmptyStr}

\* ------------------------------------------------------ regular expressions
\* The patterns of lines 552, 557 and 563 as terms: a set of characters or
\* its complement, the start of the input, the start of a line (^ under the
\* flag m), a word boundary, a sequence, an alternative, a repetition.
RxSet(chars) == [op |-> "set", chars |-> chars]
RxNot(chars) == [op |-> "not", chars |-> chars]
RxStart == [op |-> "start"]
RxBol == [op |-> "bol"]
RxWordB == [op |-> "wordb"]
RxSeq(of) == [op |-> "seq", of |-> of]
RxAlt(of) == [op |-> "alt", of |-> of]
RxStar(of) == [op |-> "star", of |-> of]
RxPlus(of) == RxSeq(<<of, RxStar(of)>>)
RxOpt(of) == RxAlt(<<of, RxSeq(<<>>)>>)

UpperChar(c) ==
    IF \E i \in 1..26 : LowerCase[i] = c
    THEN UpperCase[CHOOSE i \in 1..26 : LowerCase[i] = c]
    ELSE c

\* a literal, and a literal under the flag i: the characters each of its
\* places accepts
RxLit(str) == [op |-> "lit", of |-> [k \in DOMAIN str |-> {str[k]}]]
RxLitI(str) == [op |-> "lit", of |-> [k \in DOMAIN str |-> {str[k], UpperChar(str[k])}]]

LineTerminators == {"\n", "\r"}
WordChars ==
    {LowerCase[i] : i \in 1..26} \cup {UpperCase[i] : i \in 1..26}
        \cup Digits \cup {"_"}

\* whether index i of s holds a word character
IsWordAt(s, i) == i >= 1 /\ i <= Len(s) /\ s[i] \in WordChars

\* The indexes at which a match of re that begins at an index of from may
\* end (the index after its last character), whatever the order in which
\* the engine tries the alternatives.
RECURSIVE RxEnds(_, _, _)
RxEnds(re, s, from) ==
    CASE re.op = "set" ->
            {i + 1 : i \in {j \in from : j <= Len(s) /\ s[j] \in re.chars}}
      [] re.op = "not" ->
            {i + 1 : i \in {j \in from : j <= Len(s) /\ s[j] \notin re.chars}}
      [] re.op = "lit" ->
            {i + Len(re.of) : i \in {j \in from :
                /\ j + Len(re.of) - 1 <= Len(s)
                /\ \A k \in DOMAIN re.of : s[j + k - 1] \in re.of[k]}}
      [] re.op = "start" -> from \cap {1}
      [] re.op = "bol" ->
            {i \in from : i = 1 \/ s[i - 1] \in LineTerminators}
      [] re.op = "wordb" ->
            {i \in from : IsWordAt(s, i - 1) # IsWordAt(s, i)}
      [] re.op = "seq" ->
            IF re.of = <<>> THEN from
            ELSE RxEnds(RxSeq(Tail(re.of)), s, RxEnds(Head(re.of), s, from))
      [] re.op = "alt" ->
            UNION {RxEnds(re.of[k], s, from) : k \in DOMAIN re.of}
      [] re.op = "star" /\ re.of.op \in {"set", "not"} ->
            {j \in 1..(Len(s) + 1) : \E i \in from :
                /\ i <= j
                /\ \A k \in i..(j - 1) : (s[k] \in re.of.chars) = (re.of.op = "set")}
      [] re.op = "star" ->
            Once(RxEnds(re.of, s, from), LAMBDA more :
                IF more \subseteq from THEN from
                ELSE RxEnds(re, s, from \cup more))

\* RegExp.prototype.test and a match(...) !== null: the pattern matches somewhere
RxTest(re, s) == RxEnds(re, s, 1..(Len(s) + 1)) # {}

S_flutter == <<"f", "l", "u", "t", "t", "e", "r">>
S_flutter_web_plugins ==
    <<"f", "l", "u", "t", "t", "e", "r", "_", "w", "e", "b", "_", "p", "l",
      "u", "g", "i", "n", "s">>
S_sdk == <<"s", "d", "k">>

\* Line 552: /^flutter\s*:/
topLevelFlutterPattern ==
    RxSeq(<<RxStart, RxLit(S_flutter), RxStar(RxSet(WhiteSpace)), RxSet({":"})>>)

\* (^|\n)\s*(flutter|flutter_web_plugins)\s*:\s* of lines 557 and 563, flags im
RxDependencyKey ==
    RxSeq(<<RxAlt(<<RxBol, RxSet({"\n"})>>),
            RxStar(RxSet(WhiteSpace)),
            RxAlt(<<RxLitI(S_flutter), RxLitI(S_flutter_web_plugins)>>),
            RxStar(RxSet(WhiteSpace)), RxSet({":"}),
            RxStar(RxSet(WhiteSpace))>>)

\* sdk\s*:\s*flutter\b of lines 557 and 563
RxSdkFlutter ==
    RxSeq(<<RxLitI(S_sdk), RxStar(RxSet(WhiteSpace)), RxSet({":"}),
            RxStar(RxSet(WhiteSpace)), RxLitI(S_flutter), RxWordB>>)

\* Line 557
flutterDependencyPattern ==
    RxSeq(<<RxDependencyKey,
            RxAlt(<<RxSeq(<<RxSet({"{"}), RxStar(RxNot({"}", "\n"})),
                            RxWordB, RxSdkFlutter,
                            RxStar(RxNot({"}", "\n"})), RxSet({"}"})>>),
                    RxSdkFlutter>>)>>)

\* Line 563
flutterDependencyBlockPattern ==
    RxSeq(<<RxDependencyKey,
            RxOpt(RxSet({"\r"})), RxSet({"\n"}),
            RxStar(RxSeq(<<RxPlus(RxSet({" ", "\t"})),
                           RxStar(RxNot(LineTerminators)),
                           RxOpt(RxSet({"\r"})), RxSet({"\n"})>>)),
            RxPlus(RxSet({" ", "\t"})), RxSdkFlutter>>)

\* Lines 551-553
hasTopLevelFlutterSection(lines) ==
    \E k \in DOMAIN lines : RxTest(topLevelFlutterPattern, lines[k])

\* Line 563 left out: the inline pattern alone
hasFlutterSdkDependency_Inline(content) ==
    RxTest(flutterDependencyPattern, content)

\* Lines 555-565
hasFlutterSdkDependency(content) ==
    \/ RxTest(flutterDependencyPattern, content)
    \/ RxTest(flutterDependencyBlockPattern, content)

\* what readFile throws for a folder without a pubspec.yaml, and for one
\* whose pubspec.yaml cannot be read
NoManifest == <<"ENOENT">>
Unreadable == <<"EACCES">>

\* isFlutterProject, lines 535-549, of the content readFile gives (line 538
\* throws when there is no readable manifest)
isFlutterManifest(content) ==
    IF content \in {NoManifest, Unreadable} THEN FALSE
    ELSE \/ hasTopLevelFlutterSection(SplitLines(content))
         \/ hasFlutterSdkDependency(content)

\* ------------------------------------------------------------- manifests
\* a top-level flutter section:
\*     name: a
\*     flutter:
\*       assets: x
M_section ==
    <<"n", "a", "m", "e", ":", " ", "a", "\n", "f", "l", "u", "t", "t", "e",
      "r", ":", "\n", " ", " ", "a", "s", "s", "e", "t", "s", ":", " ", "x">>

\* the SDK dependency, inline:
\*     dependencies:
\*       flutter: {sdk: flutter}
M_inline ==
    <<"d", "e", "p", "e", "n", "d", "e", "n", "c", "i", "e", "s", ":", "\n",
      " ", " ", "f", "l", "u", "t", "t", "e", "r", ":", " ", "{", "s", "d",
      "k", ":", " ", "f", "l", "u", "t", "t", "e", "r", "}">>

\* the SDK dependency, as an indented block:
\*     dependencies:
\*       flutter:
\*         sdk: flutter
M_block ==
    <<"d", "e", "p", "e", "n", "d", "e", "n", "c", "i", "e", "s", ":", "\n",
      " ", " ", "f", "l", "u", "t", "t", "e", "r", ":", "\n", " ", " ", " ",
      " ", "s", "d", "k", ":", " ", "f", "l", "u", "t", "t", "e", "r">>

\* the SDK dependency of flutter_web_plugins:
\*     dependencies:
\*       flutter_web_plugins:
\*         sdk: flutter
M_web ==
    <<"d", "e", "p", "e", "n", "d", "e", "n", "c", "i", "e", "s", ":", "\n",
      " ", " ", "f", "l", "u", "t", "t", "e", "r", "_", "w", "e", "b", "_",
      "p", "l", "u", "g", "i", "n", "s", ":", "\n", " ", " ", " ", " ", "s",
      "d", "k", ":", " ", "f", "l", "u", "t", "t", "e", "r">>

\* ordinary package dependencies only:
\*     dependencies:
\*       http: ^1.0.0
M_plain ==
    <<"d", "e", "p", "e", "n", "d", "e", "n", "c", "i", "e", "s", ":", "\n",
      " ", " ", "h", "t", "t", "p", ":", " ", "^", "1", ".", "0", ".", "0">>

\* flutter_test alone comes from the SDK:
\*     dev_dependencies:
\*       flutter_test:
\*         sdk: flutter
M_test ==
    <<"d", "e", "v", "_", "d", "e", "p", "e", "n", "d", "e", "n", "c", "i",
      "e", "s", ":", "\n", " ", " ", "f", "l", "u", "t", "t", "e", "r", "_",
      "t", "e", "s", "t", ":", "\n", " ", " ", " ", " ", "s", "d", "k", ":",
      " ", "f", "l", "u", "t", "t", "e", "r">>

\* flutter from a path, nothing from the SDK:
\*     dependencies:
\*       flutter:
\*         path: f
M_path ==
    <<"d", "e", "p", "e", "n", "d", "e", "n", "c", "i", "e", "s", ":", "\n",
      " ", " ", "f", "l", "u", "t", "t", "e", "r", ":", "\n", " ", " ", " ",
      " ", "p", "a", "t", "h", ":", " ", "f">>

\* flutter from a path; flutter_test, listed after it, from the SDK:
\*     dependencies:
\*       flutter:
\*         path: f
\*       flutter_test:
\*         sdk: flutter
M_sibling ==
    <<"d", "e", "p", "e", "n", "d", "e", "n", "c", "i", "e", "s", ":", "\n",
      " ", " ", "f", "l", "u", "t", "t", "e", "r", ":", "\n", " ", " ", " ",
      " ", "p", "a", "t", "h", ":", " ", "f", "\n", " ", " ", "f", "l", "u",
      "t", "t", "e", "r", "_", "t", "e", "s", "t", ":", "\n", " ", " ", " ",
      " ", "s", "d", "k", ":", " ", "f", "l", "u", "t", "t", "e", "r">>

\* flutter named in a comment only:
\*     # flutter: x
\*     dependencies:
\*       http: any
M_comment ==
    <<"#", " ", "f", "l", "u", "t", "t", "e", "r", ":", " ", "x", "\n", "d",
      "e", "p", "e", "n", "d", "e", "n", "c", "i", "e", "s", ":", "\n", " ",
      " ", "h", "t", "t", "p", ":", " ", "a", "n", "y">>

Manifests ==
    {M_section, M_inline, M_block, M_web, M_plain, M_test, M_path, M_sibling,
     M_comment}

\* the manifests that pass the test of isFlutterProject, tested once each
FlutterManifests == {content \in Manifests : isFlutterManifest(content)}

\* ------------------------------------------------------------------ paths
NoPath == <<>>                  \* activePath or folderPath undefined
Sep == "/"                      \* path.sep

S_apps == <<"a", "p", "p", "s">>
S_pubspec == <<"p", "u", "b", "s", "p", "e", "c", ".", "y", "a", "m", "l">>

\* the root of the file system, the one path that ends with the separator
D_root == <<Sep>>

\* path.join(folder, name): the result is normalised, no separator is doubled
join(folder, name) ==
    IF folder = D_root THEN folder \o name ELSE folder \o <<Sep>> \o name

\* what stands before the last separator of a path
RECURSIVE UpToLastSep(_)
UpToLastSep(p) ==
    IF p = <<>> THEN p
    ELSE IF p[Len(p)] = Sep THEN SubSeq(p, 1, Len(p) - 1)
    ELSE UpToLastSep(SubSeq(p, 1, Len(p) - 1))

\* path.dirname: the folder of an entry of the root is the root
dirname(p) ==
    IF UpToLastSep(p) = <<>> /\ p # <<>> /\ p[1] = Sep THEN D_root
    ELSE UpToLastSep(p)

\* path.basename
basename(p) == SubSeq(p, Len(UpToLastSep(p)) + 2, Len(p))

\* isParentPath, lines 650-655
isParentPath(parent, child) ==
    \/ child = parent
    \/ StartsWith(child, parent \o <<Sep>>)

\* The folder is the path or one of the folders the path lies in, as the
\* file system has it: every absolute path lies in the root.
IsAncestor(folder, p) ==
    \/ p = folder
    \/ StartsWith(p, IF folder = D_root THEN folder ELSE folder \o <<Sep>>)

\* the folders of the model
D_w == <<Sep, "w">>
D_v == <<Sep, "v">>
D_wa == join(join(D_w, S_apps), <<"a">>)
D_wb == join(join(D_w, S_apps), <<"b">>)
D_vc == join(join(D_v, S_apps), <<"c">>)
D_wp == join(D_w, <<"p">>)
D_wpq == join(D_wp, <<"q">>)

Dirs == {D_root, D_w, D_v, D_wa, D_wb, D_vc, D_wp, D_wpq}

\* what a folder that does not exist holds in place of a manifest
NoDir == <<"ENOTDIR">>

\* left.localeCompare(right) < 0 on names of lower-case letters
RECURSIVE Before(_, _)
Before(left, right) ==
    LET Rank(c) == CHOOSE i \in 1..26 : LowerCase[i] = c
    IN  IF right = <<>> THEN FALSE
        ELSE IF left = <<>> THEN TRUE
        ELSE IF Head(left) # Head(right) THEN Rank(Head(left)) < Rank(Head(right))
        ELSE Before(Tail(left), Tail(right))

\* Lines 626-629: the names sorted with localeCompare
RECURSIVE SortNames(_)
SortNames(names) ==
    IF names = {} THEN <<>>
    ELSE LET least == CHOOSE n \in names : \A m \in names : ~Before(m, n)
         IN  <<least>> \o SortNames(names \ {least})

\* getMonorepoAppsCandidates, lines 619-637, with the roots in the other
\* order
RECURSIVE getMonorepoAppsCandidates_Reversed(_, _)
getMonorepoAppsCandidates_Reversed(roots, tree) ==
    IF roots = <<>> THEN <<>>
    ELSE LET appsFolder == join(Head(roots), S_apps)
             appDirs == SortNames({basename(d) : d \in
                            {e \in Dirs : tree[e] # NoDir /\ dirname(e) = appsFolder}})
         IN  getMonorepoAppsCandidates_Reversed(Tail(roots), tree)
                \o [k \in DOMAIN appDirs |-> join(appsFolder, appDirs[k])]

\* getMonorepoAppsCandidates, lines 619-637: readdir of <root>/apps fails
\* when the folder does not exist, and the root then adds no candidate
RECURSIVE getMonorepoAppsCandidates(_, _)
getMonorepoAppsCandidates(roots, tree) ==
    IF roots = <<>> THEN <<>>
    ELSE LET appsFolder == join(Head(roots), S_apps)
             appDirs == SortNames({basename(d) : d \in
                            {e \in Dirs : tree[e] # NoDir /\ dirname(e) = appsFolder}})
         IN  [k \in DOMAIN appDirs |-> join(appsFolder, appDirs[k])]
                \o getMonorepoAppsCandidates(Tail(roots), tree)

\* sortPathsByActiveFile, lines 639-648, without its sort
sortPathsByActiveFile_Unsorted(paths, active) == paths

\* sortPathsByActiveFile, lines 639-648: Array.prototype.sort is stable
sortPathsByActiveFile(paths, active) ==
    IF active = NoPath THEN paths
    ELSE LET Score(i) == IF isParentPath(paths[i], active) THEN Len(paths[i]) ELSE -1
             Place(i) == 1 + Cardinality({j \in DOMAIN paths :
                             \/ Score(j) > Score(i)
                             \/ Score(j) = Score(i) /\ j < i})
         IN  [r \in DOMAIN paths |-> paths[CHOOSE i \in DOMAIN paths : Place(i) = r]]

\* isFlutterProject, lines 535-549, of a folder of the tree
isFlutterProject(folderPath, tree) ==
    IF tree[folderPath] \in {NoDir, NoManifest, Unreadable} THEN FALSE
    ELSE tree[folderPath] \in FlutterManifests

\* The loops of lines 581-586, 592-597 and 608-613 without the test of the
\* candidate: the first candidate.
FirstProject_Untested(candidates, files) ==
    IF candidates = <<>> THEN NoPath ELSE Head(candidates)

\* the loops of lines 581-586, 592-597 and 608-613: the first candidate that
\* passes, NoPath when none does
RECURSIVE FirstProject(_, _)
FirstProject(candidates, tree) ==
    IF candidates = <<>> THEN NoPath
    ELSE IF isFlutterProject(Head(candidates), tree) THEN Head(candidates)
    ELSE FirstProject(Tail(candidates), tree)

\* Lines 599-603: the manifests findFiles may report, in any order: those of
\* the folders inside a workspace root
PubspecFiles(roots, tree) ==
    {join(d, S_pubspec) : d \in {e \in Dirs :
        /\ tree[e] \notin {NoDir, NoManifest}
        /\ \E k \in DOMAIN roots : IsAncestor(roots[k], e)}}

\* the orders in which the elements of a set may be listed
RECURSIVE Orders(_)
Orders(set) ==
    IF set = {} THEN {<<>>}
    ELSE UNION {{<<first>> \o rest : rest \in Orders(set \ {first})} :
                    first \in set}

\* Lines 580-616 with the tiers in the other order: the roots before apps/
ResolveFolder_RootsFirst(roots, active, tree, nestedPubspecs) ==
    LET direct == sortPathsByActiveFile(roots, active)
        nested == sortPathsByActiveFile(
                    [k \in DOMAIN nestedPubspecs |-> dirname(nestedPubspecs[k])],
                    active)
    IN  FirstProject(direct \o getMonorepoAppsCandidates(roots, tree) \o nested, tree)

\* Lines 580-616: the folder a computation gives, of the listing findFiles
\* returned (one manifest a folder: the Set of line 605 drops nothing)
ResolveFolder(roots, active, tree, nestedPubspecs) ==
    LET direct == sortPathsByActiveFile(roots, active)
        nested == sortPathsByActiveFile(
                    [k \in DOMAIN nestedPubspecs |-> dirname(nestedPubspecs[k])],
                    active)
    IN  FirstProject(getMonorepoAppsCandidates(roots, tree) \o direct \o nested, tree)

\* Line 574: the key of the cache
RECURSIVE JoinPaths(_)
JoinPaths(paths) ==
    IF paths = <<>> THEN <<>>
    ELSE IF Len(paths) = 1 THEN paths[1]
    ELSE paths[1] \o <<"|">> \o JoinPaths(Tail(paths))

cacheKey(roots, active) == JoinPaths(roots) \o <<":", ":">> \o active

\* the trees of the model
T_mono ==
    (D_w :> M_section) @@ (D_v :> NoManifest) @@ (D_wa :> M_plain)
        @@ (D_wb :> M_block) @@ (D_vc :> M_inline) @@ (D_wp :> M_web)
        @@ (D_wpq :> NoDir) @@ (D_root :> NoManifest)
T_root ==
    (D_w :> M_inline) @@ (D_v :> M_section) @@ (D_wa :> NoDir)
        @@ (D_wb :> NoDir) @@ (D_vc :> M_test) @@ (D_wp :> M_web)
        @@ (D_wpq :> NoManifest) @@ (D_root :> M_section)
T_nested ==
    (D_w :> M_plain) @@ (D_v :> Unreadable) @@ (D_wa :> NoDir)
        @@ (D_wb :> NoDir) @@ (D_vc :> NoDir) @@ (D_wp :> M_sibling)
        @@ (D_wpq :> M_block) @@ (D_root :> NoManifest)
T_none ==
    (D_w :> M_comment) @@ (D_v :> NoManifest) @@ (D_wa :> M_path)
        @@ (D_wb :> Unreadable) @@ (D_vc :> NoDir) @@ (D_wp :> M_test)
        @@ (D_wpq :> NoDir) @@ (D_root :> NoManifest)

Trees == {T_mono, T_root, T_nested, T_none}

\* the workspace roots (a workspace may open the root of the file system),
\* and the files of the active editor
RootLists == {<<>>, <<D_w>>, <<D_v, D_w>>, <<D_v, D_root>>}
ActivePaths == {NoPath, join(D_wpq, <<"m">>)}

\* the folders a computation may give, whatever the order of findFiles
\* (which comes into play when neither apps/ nor a root has a project)
ResolveOutcomes(roots, active, files) ==
    Once(ResolveFolder(roots, active, files, <<>>), LAMBDA early :
        IF early # NoPath THEN {early}
        ELSE {ResolveFolder(roots, active, files, nestedPubspecs) :
                nestedPubspecs \in Orders(PubspecFiles(roots, files))})

\* the keys of the cache, computed once each
CacheKeys ==
    {<<input[1], input[2], cacheKey(input[1], input[2])>> :
        input \in RootLists \X ActivePaths}

KeyOf(roots, active) ==
    (CHOOSE row \in CacheKeys : row[1] = roots /\ row[2] = active)[3]

\* persisted configurations (flutterRunner.profiles, flutterRunner.activeProfile)
P_dev ==
    [name |-> "dev", dartEntrypoint |-> <<" ", "d", ".", "d", "a", "r", "t">>,
     flavor |-> <<"q", "a", " ">>, extra |-> "x"]
P_blank ==
    [name |-> "blank", dartEntrypoint |-> <<" ", " ">>, flavor |-> <<" ">>,
     extra |-> NoExtra]
P_bare ==
    [name |-> "bare", dartEntrypoint |-> Undef, flavor |-> Undef, extra |-> NoExtra]
P_invalid ==
    [name |-> NotAString, dartEntrypoint |-> Undef, flavor |-> Undef, extra |-> NoExtra]

\* what the profile form posts on save, and the profile it resolves to
\* (lines 994-1015); a blank name is refused by the form
Y_qa ==
    [name |-> "qa", dartEntrypoint |-> <<" ", "q", ".", "d", "a", "r", "t">>,
     flavor |-> <<"q", "a", " ">>]
Y_dev == [name |-> "dev", dartEntrypoint |-> <<" ">>, flavor |-> Undef]
Y_default ==
    [name |-> "default", dartEntrypoint |-> <<"m", ".", "d", "a", "r", "t">>,
     flavor |-> <<" ">>]

FormPayloads == {Y_qa, Y_dev, Y_default}

FormResult(payload) ==
    [name |-> payload.name,
     dartEntrypoint |-> OrElse(Trim(OrEmpty(payload.dartEntrypoint)), S_libmain),
     flavor |-> Trim(OrEmpty(payload.flavor)),
     extra |-> NoExtra]

\* the stores a workspace opens with
Stores ==
    { [profiles |-> <<>>, active |-> "default"],
      [profiles |-> <<P_invalid>>, active |-> "default"],
      [profiles |-> <<P_dev, P_invalid, P_blank>>, active |-> "blank"],
      [profiles |-> <<P_blank, P_dev>>, active |-> "qa"] }

Configs ==
    { [profiles |-> <<>>, active |-> "default"],
      [profiles |-> <<P_invalid, P_dev, P_blank>>, active |-> "dev"],
      [profiles |-> <<P_blank, P_dev>>, active |-> "gone"],
      [profiles |-> <<P_dev, P_bare>>, active |-> "bare"] }

\* ------------------------------------------------------------------ state
VARIABLES
    runProcess,                 \* the held process handle, None when undefined
    isRunStarting,
    latestDevToolsUrl,
    latestWebAppUrl,
    hasOpenedWebPreviewForRun,
    currentRunIsWeb,
    currentRunOpensInTab,
    ctxRunning,                 \* context key flutterRunner.isRunning
    ctxStarting,                \* context key flutterRunner.isStarting
    ctxHasDevToolsUrl,          \* context key flutterRunner.hasDevToolsUrl
    config,                     \* workspace configuration flutterRunner.*
    selecting,                  \* the invocations of selectProfile, by their await
    proc,                       \* the child processes spawn has created
    stdin,                      \* the directive the last step wrote to a process input
    msg,                        \* the message the last step showed to the user
    startPc, startLocal,        \* startFlutterRun invocations: the await each is at
    stopping,                   \* stopRun invocations suspended at line 276
    refreshing,                 \* updateStatusBar invocations per await they are at
    shown,                      \* the URL the last step gave to simpleBrowser.show
    appended,                   \* the process output the last step appended to the channel
    scanning,                   \* captureDevToolsUrl invocations suspended at line 813
    hotReloadDebounceTimer,     \* the handle of the last debounce timer, None when undefined
    timers,                     \* the timers of setTimeout that have yet to fire
    workspaceFolders,           \* the paths of vscode.workspace.workspaceFolders
    activePath,                 \* the file of the active editor, NoPath when none
    tree,                       \* the manifest each folder of the disk holds
    clock,                      \* Date.now(), in milliseconds
    cachedFlutterProjectFolder, \* <<>> when undefined, else <<the cached result>>
    resolving,                  \* resolveFlutterProjectFolderPath calls past line 578
    resolved,                   \* what the resolver returned in the last step
    deviceCall,                 \* a resolveSelectedDeviceId call: its await and what it read
    thrown,                     \* the fault the last step raised and no handler catches
    lastAccepted,               \* history: URL of the last accepting line since a clear
    stopShown                   \* stopButton is shown (lines 457, 466, 472)

session == <<latestDevToolsUrl, latestWebAppUrl, hasOpenedWebPreviewForRun,
             currentRunIsWeb, currentRunOpensInTab>>
ctx == <<ctxRunning, ctxStarting, ctxHasDevToolsUrl>>
tasks == <<startPc, startLocal, stopping, refreshing>>
out == <<stdin, msg, shown, appended, thrown>>
reload == <<hotReloadDebounceTimer, timers>>
\* what the handlers of a run session never write
store == <<config, selecting>>
project == <<workspaceFolders, activePath, tree, clock,
             cachedFlutterProjectFolder, resolving, resolved>>
others == <<store, scanning, reload, project, deviceCall, lastAccepted, stopShown>>
vars == <<runProcess, isRunStarting, session, ctx, proc, out, tasks, others>>

Procs == 1..MaxProcs
Starts == 1..MaxStarts
RefreshPcs == {"U445", "U447f", "U453"}
Callers == {"abort", "other"}

NoProc ==
    [state |-> "none", killed |-> FALSE, attached |-> FALSE,
     args |-> <<>>, cwd |-> NoFolder,
     forceWebInTab |-> FALSE, selectedDevice |-> Undef, profile |-> DefaultProfile]

\* stopAsked is history: a stop was requested since the call began
NoLocal ==
    [forceWebInTab |-> FALSE, folder |-> NoFolder, profile |-> DefaultProfile,
     selectedDevice |-> Undef, args |-> <<>>, stopAsked |-> FALSE]

NoInput == [to |-> None, text |-> ""]

MainConfig == [profiles |-> <<P_invalid, P_blank, P_dev>>, active |-> "dev"]

\* what the resolver returns in a step in which no call returns
NoReturn == [caller |-> "none", folderPath |-> NoPath, cached |-> FALSE]

\* Line 38: no result is cached and no call of the resolver is under way
NoDeviceCall ==
    [pc |-> "idle", primary |-> Undef, secondary |-> Undef,
     flutterDeviceId |-> Undef, deviceId |-> Undef, result |-> Undef]

NoResolution ==
    /\ deviceCall = NoDeviceCall
    /\ clock = 0
    /\ cachedFlutterProjectFolder = <<>>
    /\ resolving = <<>>
    /\ resolved = NoReturn

\* The state of a run session after activate().
ActivatedRun ==
    /\ runProcess = None
    /\ isRunStarting = FALSE
    /\ latestDevToolsUrl = NoUrl
    /\ latestWebAppUrl = NoUrl
    /\ hasOpenedWebPreviewForRun = FALSE
    /\ currentRunIsWeb = FALSE
    /\ currentRunOpensInTab = FALSE
    /\ ctxRunning = FALSE
    /\ ctxStarting = FALSE
    /\ ctxHasDevToolsUrl = FALSE
    /\ proc = [p \in Procs |-> NoProc]
    /\ stdin = NoInput
    /\ msg = "none"
    /\ startPc = [i \in Starts |-> "idle"]
    /\ startLocal = [i \in Starts |-> NoLocal]
    /\ stopping = 0
    /\ refreshing = [slot \in RefreshPcs \X Callers |-> 0]
    /\ shown = NoUrl
    /\ appended = EmptyStr
    /\ scanning = <<>>
    /\ selecting = <<>>
    /\ hotReloadDebounceTimer = None
    /\ timers = {}
    /\ thrown = "none"
    /\ lastAccepted = NoUrl
    /\ stopShown = FALSE

\* The state after activate(), whatever the workspace configuration holds.
Activated ==
    /\ ActivatedRun
    /\ NoResolution
    /\ workspaceFolders = <<D_w>>
    /\ activePath = NoPath
    /\ tree = T_mono

Init == Activated /\ config = MainConfig

InitResolve ==
    /\ ActivatedRun
    /\ NoResolution
    /\ config = MainConfig
    /\ workspaceFolders \in RootLists
    /\ activePath \in ActivePaths
    /\ tree \in Trees

InitArgs == Activated /\ config \in Configs

InitProfiles == Activated /\ config \in Stores

\* ----------------------------------------------------------------- helpers
\* The invocation record a new call of startFlutterRun takes: the lowest idle one.
FreeSlot(pcs, i) ==
    /\ pcs[i] = "idle"
    /\ \A k \in DOMAIN pcs : k < i => pcs[k] # "idle"

FreeProc(pr, p) ==
    /\ pr[p].state = "none"
    /\ \A q \in Procs : q < p => pr[q].state # "none"

\* A process is forgotten once the program can no longer hear of it: its
\* handle is not held and it is closed or has no observer attached.
Reap(pr, handle) ==
    [p \in Procs |->
        IF p # handle /\ (pr[p].state = "closed" \/ ~pr[p].attached)
        THEN NoProc ELSE pr[p]]

\* Line 268 left out: no signal is sent.
Kill_NoSignal(pr, handle) == pr

\* ChildProcess.kill("SIGTERM"): the signal reaches a process that still runs.
\* What the process was spawned with is kept only while its handle is held.
Kill(pr, handle) ==
    [pr EXCEPT ![handle] =
        [NoProc EXCEPT !.state = pr[handle].state,
                       !.attached = pr[handle].attached,
                       !.killed = pr[handle].killed \/ pr[handle].state = "alive"]]

\* runProcess.stdin.write(text)
Write(handle, text) == [to |-> handle, text |-> text]

\* without an element of a sequence
Without(seq, k) == [i \in 1..(Len(seq) - 1) |-> IF i < k THEN seq[i] ELSE seq[i + 1]]

\* What a step shows, writes to a process input, and which command it serves
NoMessage == msg' = "none"
NoWrite == stdin' = NoInput
NoShow == shown' = NoUrl
NoOutput == appended' = EmptyStr
NoFault == thrown' = "none"

\* The tests of the process and of its input left out of lines 774 and 786.
NoLiveInput_HandleOnly == runProcess = None

\* !runProcess || runProcess.killed || !runProcess.stdin || runProcess.stdin.destroyed
NoLiveInput ==
    \/ runProcess = None
    \/ proc[runProcess].killed
    \/ proc[runProcess].state # "alive"

\* ---------------------------------------------------------- updateStatusBar
\* The invocations in progress, by the await they are at and by their caller:
\* "abort" is the finally block of a start that aborted, "other" any other.
Refreshing ==
    LET slots == RefreshPcs \X Callers
        RECURSIVE Sum(_)
        Sum(S) == IF S = {} THEN 0
                  ELSE LET x == CHOOSE x \in S : TRUE
                       IN  refreshing[x] + Sum(S \ {x})
    IN  Sum(slots)

\* updateStatusBar is called (line 445: it awaits the resolver)
CallUpdateStatusBar(caller) ==
    /\ Refreshing < MaxRefresh
    /\ refreshing' = [refreshing EXCEPT ![<<"U445", caller>>] = @ + 1]

\* The 4-second timer and the configuration/workspace/window events (82-112)
RefreshEvent ==
    /\ CallUpdateStatusBar("other")
    /\ NoMessage
    /\ NoWrite
    /\ NoShow
    /\ NoFault
    /\ NoOutput
    /\ UNCHANGED <<runProcess, isRunStarting, session, ctx, others, proc,
                   startPc, startLocal, stopping>>

\* Lines 445-447 and 463-507: a folder resolved; the controls follow
\* runProcess and isRunStarting.
RefreshProject(caller) ==
    /\ refreshing[<<"U445", caller>>] > 0
    /\ refreshing' = [refreshing EXCEPT ![<<"U445", caller>>] = @ - 1]
    /\ stopShown' = (runProcess # None)
    /\ NoMessage
    /\ NoWrite
    /\ NoShow
    /\ NoFault
    /\ NoOutput
    /\ UNCHANGED <<runProcess, isRunStarting, session, ctx, store, scanning, reload,
                   project, deviceCall, lastAccepted, proc, startPc, startLocal,
                   stopping>>

\* Lines 445-447: no folder resolved.
RefreshResolvedNone(caller) ==
    /\ refreshing[<<"U445", caller>>] > 0
    /\ refreshing' = [refreshing EXCEPT ![<<"U445", caller>>] = @ - 1,
                                        ![<<"U447f", caller>>] = @ + 1]
    /\ NoMessage
    /\ NoWrite
    /\ NoShow
    /\ NoFault
    /\ NoOutput
    /\ UNCHANGED <<runProcess, isRunStarting, session, ctx, others, proc,
                   startPc, startLocal, stopping>>

\* Lines 449-453
RefreshNoProject(caller) ==
    /\ refreshing[<<"U447f", caller>>] > 0
    /\ latestDevToolsUrl' = NoUrl
    /\ lastAccepted' = NoUrl
    /\ refreshing' = [refreshing EXCEPT ![<<"U447f", caller>>] = @ - 1,
                                        ![<<"U453", caller>>] = @ + 1]
    /\ NoMessage
    /\ NoWrite
    /\ NoShow
    /\ NoFault
    /\ NoOutput
    /\ UNCHANGED <<runProcess, isRunStarting, latestWebAppUrl,
                   hasOpenedWebPreviewForRun, currentRunIsWeb, currentRunOpensInTab,
                   ctx, store, scanning, reload, project, deviceCall, stopShown, proc,
                   startPc, startLocal, stopping>>

\* Lines 454-460
RefreshNoProjectDone(caller) ==
    /\ refreshing[<<"U453", caller>>] > 0
    /\ ctxHasDevToolsUrl' = FALSE
    /\ stopShown' = FALSE
    /\ refreshing' = [refreshing EXCEPT ![<<"U453", caller>>] = @ - 1]
    /\ NoMessage
    /\ NoWrite
    /\ NoShow
    /\ NoFault
    /\ NoOutput
    /\ UNCHANGED <<runProcess, isRunStarting, session, ctxRunning, ctxStarting,
                   store, scanning, reload, project, deviceCall, lastAccepted,
                   proc, startPc, startLocal, stopping>>

\* ------------------------------------------------------------------ stopRun
\* Line 272 left out.
SessionReset_KeepsWebAppUrl == <<NoUrl, latestWebAppUrl, FALSE, FALSE, FALSE>>

\* The values lines 271-275 give the session fields.
SessionReset == <<NoUrl, NoUrl, FALSE, FALSE, FALSE>>

\* Lines 271-276 moved inside the test of line 267.
stopRun_OnlyWhenHeld(pr) ==
    /\ stopping < MaxStops
    /\ proc' = Reap(IF runProcess # None THEN Kill(pr, runProcess) ELSE pr, None)
    /\ runProcess' = None
    /\ IF runProcess # None
       THEN /\ latestDevToolsUrl' = NoUrl
            /\ lastAccepted' = NoUrl
            /\ latestWebAppUrl' = NoUrl
            /\ hasOpenedWebPreviewForRun' = FALSE
            /\ currentRunIsWeb' = FALSE
            /\ currentRunOpensInTab' = FALSE
            /\ ctxHasDevToolsUrl' = FALSE
       ELSE UNCHANGED <<session, ctxHasDevToolsUrl, lastAccepted>>
    /\ stopping' = stopping + 1

\* Lines 267-276, up to the first await; pr is the process table at the call.
stopRun(pr) ==
    /\ stopping < MaxStops
    /\ proc' = Reap(IF runProcess # None THEN Kill(pr, runProcess) ELSE pr, None)
    /\ runProcess' = None
    /\ latestDevToolsUrl' = SessionReset[1]
    /\ lastAccepted' = NoUrl
    /\ latestWebAppUrl' = SessionReset[2]
    /\ hasOpenedWebPreviewForRun' = SessionReset[3]
    /\ currentRunIsWeb' = SessionReset[4]
    /\ currentRunOpensInTab' = SessionReset[5]
    /\ ctxHasDevToolsUrl' = FALSE
    /\ stopping' = stopping + 1

\* command flutterRunner.stopRun, and deactivate().  No line of stopRun
\* reads or writes what a start in progress holds: the request is only noted.
StopCmd ==
    /\ stopRun(proc)
    /\ startLocal' = [i \in Starts |->
          IF startPc[i] \in {"idle", "L232"} THEN startLocal[i]
          ELSE [startLocal[i] EXCEPT !.stopAsked = TRUE]]
    /\ NoMessage
    /\ NoWrite
    /\ NoShow
    /\ NoFault
    /\ NoOutput
    /\ UNCHANGED <<isRunStarting, ctxRunning, ctxStarting, store, scanning, reload, project,
                   deviceCall, stopShown, startPc, refreshing>>

\* Line 278 passing true instead of false.
StopSetRunning_True ==
    /\ stopping > 0
    /\ ctxRunning' = TRUE
    /\ stopping' = stopping - 1
    /\ CallUpdateStatusBar("other")
    /\ NoMessage
    /\ NoWrite
    /\ NoShow
    /\ NoFault
    /\ NoOutput
    /\ UNCHANGED <<runProcess, isRunStarting, session, ctxStarting, ctxHasDevToolsUrl,
                   others, proc, startPc, startLocal>>

\* Lines 278-279: setRunningState(context, false), then the refresh begins
StopSetRunning ==
    /\ stopping > 0
    /\ ctxRunning' = FALSE
    /\ stopping' = stopping - 1
    /\ CallUpdateStatusBar("other")
    /\ NoMessage
    /\ NoWrite
    /\ NoShow
    /\ NoFault
    /\ NoOutput
    /\ UNCHANGED <<runProcess, isRunStarting, session, ctxStarting, ctxHasDevToolsUrl,
                   others, proc, startPc, startLocal>>

\* ---------------------------------------------------------- startFlutterRun
\* The finally block without line 260.
Finally_KeepsStarting(i, caller) ==
    /\ isRunStarting' = isRunStarting
    /\ ctxStarting' = FALSE
    /\ startPc' = [startPc EXCEPT ![i] = "idle"]
    /\ startLocal' = [startLocal EXCEPT ![i] = NoLocal]
    /\ CallUpdateStatusBar(caller)

\* Lines 259-262: the finally block; the refresh of line 262 begins when the
\* await of line 261 returns.
Finally(i, caller) ==
    /\ isRunStarting' = FALSE
    /\ ctxStarting' = FALSE
    /\ startPc' = [startPc EXCEPT ![i] = "idle"]
    /\ startLocal' = [startLocal EXCEPT ![i] = NoLocal]
    /\ CallUpdateStatusBar(caller)

\* Lines 151-154: the call, up to the await of the resolver.
startFlutterRun(forceWebInTab) ==
    \E i \in Starts :
        /\ FreeSlot(startPc, i)
        /\ \E p \in Procs : proc[p].state = "none"
        /\ isRunStarting' = TRUE
        /\ ctxStarting' = TRUE
        /\ startPc' = [startPc EXCEPT ![i] = "L154"]
        /\ startLocal' = [startLocal EXCEPT
                            ![i] = [NoLocal EXCEPT !.forceWebInTab = forceWebInTab]]
        /\ NoMessage
        /\ NoWrite
        /\ NoShow
        /\ NoFault
        /\ NoOutput
        /\ UNCHANGED <<runProcess, session, ctxRunning, ctxHasDevToolsUrl, others,
                       proc, stopping, refreshing>>

\* Lines 154-160: no project folder resolved.
StartNoFolder(i) ==
    /\ startPc[i] = "L154"
    /\ msg' = "noProject"
    /\ Finally(i, "abort")
    /\ NoWrite
    /\ NoShow
    /\ NoFault
    /\ NoOutput
    /\ UNCHANGED <<runProcess, session, ctxRunning, ctxHasDevToolsUrl, others,
                   proc, stopping>>

\* Lines 154-170: a folder resolved, the profile read (the start aborts without
\* one), the device asked for.
StartFolder(i) ==
    /\ startPc[i] = "L154"
    /\ IF getProfiles(config.profiles) = <<>>
       THEN /\ msg' = "noProfile"
            /\ Finally(i, "abort")
            /\ UNCHANGED <<runProcess, session, ctxRunning, ctxHasDevToolsUrl,
                           others, proc, stopping>>
       ELSE /\ \E folder \in Folders :
                  startLocal' = [startLocal EXCEPT
                      ![i].folder = folder,
                      ![i].profile = getActiveProfile(config.profiles, config.active)]
            /\ startPc' = [startPc EXCEPT ![i] = "L170"]
            /\ NoMessage
            /\ UNCHANGED <<runProcess, isRunStarting, session, ctx, others, proc,
                           stopping, refreshing>>
    /\ NoWrite
    /\ NoShow
    /\ NoFault
    /\ NoOutput

\* Lines 171-176: no device resolvable; the warning with its action is shown.
StartNoDevice(i) ==
    /\ startPc[i] = "L170"
    /\ Undef \in DeviceOutcomes
    /\ msg' = "noDevice"
    /\ startPc' = [startPc EXCEPT ![i] = "L176"]
    /\ NoWrite
    /\ NoShow
    /\ NoFault
    /\ NoOutput
    /\ UNCHANGED <<runProcess, isRunStarting, session, ctx, others, proc,
                   startLocal, stopping, refreshing>>

\* Lines 180-183: the warning is dismissed, or answered and the command
\* flutter.selectDevice returns.
StartNoDeviceDone(i) ==
    /\ startPc[i] = "L176"
    /\ Finally(i, "abort")
    /\ NoMessage
    /\ NoWrite
    /\ NoShow
    /\ NoFault
    /\ NoOutput
    /\ UNCHANGED <<runProcess, session, ctxRunning, ctxHasDevToolsUrl, others,
                   proc, stopping>>

\* Lines 180-181 as if no finally block followed the try of line 153: the
\* fault leaves the function at once.
StartSelectDeviceFails_NoFinally(i) ==
    /\ startPc[i] = "L176"
    /\ startPc' = [startPc EXCEPT ![i] = "idle"]
    /\ startLocal' = [startLocal EXCEPT ![i] = NoLocal]
    /\ thrown' = "flutter.selectDevice"
    /\ NoMessage
    /\ NoWrite
    /\ NoShow
    /\ NoOutput
    /\ UNCHANGED <<runProcess, isRunStarting, session, ctx, others, proc,
                   stopping, refreshing>>

\* Lines 180-181: the warning is answered and the command flutter.selectDevice
\* rejects; no handler catches it (the try of line 153 has a finally block
\* alone), so the finally block runs and the fault reaches the caller.
StartSelectDeviceFails(i) ==
    /\ startPc[i] = "L176"
    /\ Finally(i, "abort")
    /\ thrown' = "flutter.selectDevice"
    /\ NoMessage
    /\ NoWrite
    /\ NoShow
    /\ NoOutput
    /\ UNCHANGED <<runProcess, session, ctxRunning, ctxHasDevToolsUrl, others,
                   proc, stopping>>

\* Lines 186-192: Run Web in Tab with a device that is not web-class.
StartNotWeb(i) ==
    /\ startPc[i] = "L170"
    /\ \E selectedDevice \in DeviceOutcomes \ {Undef} :
          startLocal[i].forceWebInTab /\ ~isWebDeviceId(selectedDevice)
    /\ msg' = "notWeb"
    /\ Finally(i, "abort")
    /\ NoWrite
    /\ NoShow
    /\ NoFault
    /\ NoOutput
    /\ UNCHANGED <<runProcess, session, ctxRunning, ctxHasDevToolsUrl, others,
                   proc, stopping>>

\* Lines 186-225: the arguments are built and the session fields prepared.
StartPrepare(i) ==
    /\ startPc[i] = "L170"
    /\ \E selectedDevice \in DeviceOutcomes \ {Undef} :
          LET forceWebInTab == startLocal[i].forceWebInTab
              selectedIsWeb == isWebDeviceId(selectedDevice)
              runDeviceId == runDeviceIdOf(forceWebInTab, selectedDevice)
          IN  /\ ~(forceWebInTab /\ ~selectedIsWeb)
              /\ startLocal' = [startLocal EXCEPT
                    ![i].selectedDevice = selectedDevice,
                    ![i].args = spawnArgs(startLocal[i].profile, runDeviceId)]
              /\ currentRunIsWeb' = selectedIsWeb
              /\ currentRunOpensInTab' = (forceWebInTab /\ selectedIsWeb)
    /\ latestDevToolsUrl' = NoUrl
    /\ lastAccepted' = NoUrl
    /\ latestWebAppUrl' = NoUrl
    /\ hasOpenedWebPreviewForRun' = FALSE
    /\ ctxHasDevToolsUrl' = FALSE
    /\ startPc' = [startPc EXCEPT ![i] = "L225"]
    /\ NoMessage
    /\ NoWrite
    /\ NoShow
    /\ NoFault
    /\ NoOutput
    /\ UNCHANGED <<runProcess, isRunStarting, ctxRunning, ctxStarting, store, scanning, reload, project,
                   deviceCall, stopShown, proc, stopping, refreshing>>

\* Lines 227-232: spawn, and setRunningState(context, true) up to its await.
StartSpawn(i) ==
    /\ startPc[i] = "L225"
    /\ \E p \in Procs :
          /\ FreeProc(proc, p)
          /\ proc' = [proc EXCEPT ![p] =
                [state |-> "alive", killed |-> FALSE, attached |-> FALSE,
                 args |-> startLocal[i].args, cwd |-> startLocal[i].folder,
                 forceWebInTab |-> startLocal[i].forceWebInTab,
                 selectedDevice |-> startLocal[i].selectedDevice,
                 profile |-> startLocal[i].profile]]
          /\ runProcess' = p
    /\ ctxRunning' = TRUE
    /\ startPc' = [startPc EXCEPT ![i] = "L232"]
    /\ startLocal' = [startLocal EXCEPT ![i] = NoLocal]
    /\ NoMessage
    /\ NoWrite
    /\ NoShow
    /\ NoFault
    /\ NoOutput
    /\ UNCHANGED <<isRunStarting, session, ctxStarting, ctxHasDevToolsUrl, others,
                   stopping, refreshing>>

\* Lines 234-261: the observers are attached to the process runProcess names
\* now (a TypeError when it names none), then the finally block runs.
StartAttach(i) ==
    /\ startPc[i] = "L232"
    /\ proc' = IF runProcess # None
               THEN [proc EXCEPT ![runProcess].attached = TRUE]
               ELSE proc
    /\ thrown' = IF runProcess # None THEN "none" ELSE "TypeError"
    /\ Finally(i, "other")
    /\ NoMessage
    /\ NoWrite
    /\ NoShow
    /\ NoOutput
    /\ UNCHANGED <<runProcess, session, ctxRunning, ctxHasDevToolsUrl, others,
                   stopping>>

\* ------------------------------------------------- runFlutter and its kin
\* The guard of lines 120 and 134 left out.
StartInFlight_Unguarded == FALSE

\* Lines 120 and 134: a start is in flight.
StartInFlight == isRunStarting

\* Lines 785-796
triggerHotRestart ==
    /\ IF NoLiveInput
       THEN /\ msg' = "noRun"
            /\ NoWrite
       ELSE /\ stdin' = Write(runProcess, "R\n")
            /\ msg' = "restart"
    /\ NoShow
    /\ NoFault
    /\ NoOutput
    /\ UNCHANGED <<runProcess, isRunStarting, session, ctx, others, proc, tasks>>

\* Lines 120-123 and 134-137: the request is rejected with a warning.
RejectStarting ==
    /\ msg' = "starting"
    /\ NoWrite
    /\ NoShow
    /\ NoFault
    /\ NoOutput
    /\ UNCHANGED <<runProcess, isRunStarting, session, ctx, others, proc, tasks>>

\* Lines 138-143
RejectActive ==
    /\ msg' = "active"
    /\ NoWrite
    /\ NoShow
    /\ NoFault
    /\ NoOutput
    /\ UNCHANGED <<runProcess, isRunStarting, session, ctx, others, proc, tasks>>

\* The test of line 125 left out: run always starts.
RunCmd_AlwaysStarts ==
    IF StartInFlight THEN RejectStarting
    ELSE startFlutterRun(FALSE)

\* command flutterRunner.run (lines 119-131)
RunCmd ==
    IF StartInFlight THEN RejectStarting
    ELSE IF runProcess # None THEN triggerHotRestart
    ELSE startFlutterRun(FALSE)

\* command flutterRunner.runWebInTab (lines 133-145)
RunWebInTabCmd ==
    IF StartInFlight THEN RejectStarting
    ELSE IF runProcess # None THEN RejectActive
    ELSE startFlutterRun(TRUE)

\* ------------------------------------------------------------- hot reload
\* triggerHotReload, lines 773-783
triggerHotReload(trigger) ==
    /\ IF NoLiveInput
       THEN /\ msg' = IF trigger = "manual" THEN "noRun" ELSE "none"
            /\ NoWrite
       ELSE /\ stdin' = Write(runProcess, "r\n")
            /\ NoMessage
    /\ NoShow
    /\ NoFault
    /\ NoOutput

\* The command flutterRunner.hotReload (line 82)
HotReloadCmd ==
    /\ triggerHotReload("manual")
    /\ UNCHANGED <<runProcess, isRunStarting, session, ctx, others, proc, tasks>>

\* the documents a save may be about, and the setting hotReloadOnSave
Documents == [languageId : {"dart", "yaml"}, inWorkspace : BOOLEAN]

Timers == 1..MaxTimers

\* Lines 912-914 left out: the pending timer is not cleared.
clearTimeout_Keeps(pending, handle) == pending

\* clearTimeout(handle): a timer that has fired or been cleared is not pending
clearTimeout(pending, handle) == pending \ {handle}

\* The test of line 895 left out: a save of any document counts.
DocumentSaved_AnyLanguage(doc, autoHotReload) ==
    /\ IF runProcess # None /\ doc.inWorkspace /\ autoHotReload
       THEN \E t \in Timers :
               /\ t \notin timers /\ t # hotReloadDebounceTimer
               /\ \A u \in Timers :
                     u < t => u \in timers \/ u = hotReloadDebounceTimer
               /\ hotReloadDebounceTimer' = t
               /\ timers' = clearTimeout(timers, hotReloadDebounceTimer) \cup {t}
       ELSE UNCHANGED reload
    /\ UNCHANGED <<project, deviceCall, lastAccepted, stopShown>>
    /\ NoMessage
    /\ NoWrite
    /\ NoShow
    /\ NoFault
    /\ NoOutput
    /\ UNCHANGED <<runProcess, isRunStarting, session, ctx, store, scanning,
                   proc, tasks>>

\* handleDocumentSaved, lines 894-918.  The new timer is a handle other than
\* the one the variable still holds.
DocumentSaved(doc, autoHotReload) ==
    /\ IF doc.languageId = "dart" /\ runProcess # None /\ doc.inWorkspace
            /\ autoHotReload
       THEN \E t \in Timers :
               /\ t \notin timers /\ t # hotReloadDebounceTimer
               /\ \A u \in Timers :
                     u < t => u \in timers \/ u = hotReloadDebounceTimer
               /\ hotReloadDebounceTimer' = t
               /\ timers' = clearTimeout(timers, hotReloadDebounceTimer) \cup {t}
       ELSE UNCHANGED reload
    /\ UNCHANGED <<project, deviceCall, lastAccepted, stopShown>>
    /\ NoMessage
    /\ NoWrite
    /\ NoShow
    /\ NoFault
    /\ NoOutput
    /\ UNCHANGED <<runProcess, isRunStarting, session, ctx, store, scanning,
                   proc, tasks>>

\* The debounce timer fires 250 ms after the save that set it (lines 915-917).
TimerFire(t) ==
    /\ t \in timers
    /\ timers' = timers \ {t}
    /\ triggerHotReload("save")
    /\ UNCHANGED <<runProcess, isRunStarting, session, ctx, store, scanning,
                   hotReloadDebounceTimer, project, deviceCall,
                   lastAccepted, stopShown, proc, tasks>>

\* ------------------------------------------------------------ selectProfile
\* the names of a list of profiles
ProfileNames(profiles) == {profiles[k].name : k \in DOMAIN profiles}

\* Lines 351 and 1004-1006 with their tests left out: no name is ever taken.
hasName_Never(profiles, name) == FALSE

\* Lines 351 (current.some) and 1004-1006 (existingNames.includes)
hasName(profiles, name) == name \in ProfileNames(profiles)

\* every name a profile may have
ProfileNameSet == {"default", "dev", "blank", "qa"}

\* An invocation of selectProfile at none of its awaits.  wasActive is
\* history: get-active returned the edit target when the edit was saved.
NoSelect ==
    [pc |-> "idle", listed |-> {}, target |-> "", name |-> "", wasActive |-> FALSE]

\* setActiveProfile, line 430-432, and line 420-422: the active name is written
WriteActive(name) == config' = [config EXCEPT !.active = name]

\* Line 355: what create gives saveProfiles
saveCreated(current, created) == Append(current, created)

\* saveProfiles, lines 438-442
saveProfiles(profiles) == config' = [config EXCEPT !.profiles = profiles]

\* the invocation k of selectProfile moves to another await, or returns
Await(k, task) == selecting' = [selecting EXCEPT ![k] = task]
Return(k) == selecting' = Without(selecting, k)

\* what a step of selectProfile leaves alone besides the store
ProfileFrame ==
    /\ NoWrite
    /\ NoShow
    /\ NoFault
    /\ NoOutput
    /\ UNCHANGED <<runProcess, isRunStarting, session, ctx, scanning, reload,
                   project, deviceCall, lastAccepted, stopShown,
                   proc, startPc, startLocal, stopping>>

\* Lines 82-91: the settings flutterRunner.profiles and
\* flutterRunner.activeProfile are changed in the editor; the status refresh begins.
ConfigurationChanged(settings) ==
    /\ config # settings
    /\ config' = settings
    /\ CallUpdateStatusBar("other")
    /\ NoMessage
    /\ ProfileFrame
    /\ UNCHANGED selecting

\* Lines 283-334: the command lists the profiles and shows the quick pick.
SelectProfileCmd ==
    /\ Len(selecting) < MaxSelects
    /\ LET profiles == getProfiles(config.profiles)
       IN  selecting' = Append(selecting,
               IF Len(profiles) = 0
               THEN [NoSelect EXCEPT !.pc = "L285"]
               ELSE [NoSelect EXCEPT !.pc = "L298",
                                     !.listed = ProfileNames(profiles)])
    /\ NoMessage
    /\ ProfileFrame
    /\ UNCHANGED <<config, refreshing>>

\* Lines 336-338, 362-364, 397-399: a quick pick is dismissed.
PickNothing(k) ==
    /\ k \in DOMAIN selecting
    /\ selecting[k].pc \in {"L298", "L361", "L396"}
    /\ Return(k)
    /\ NoMessage
    /\ ProfileFrame
    /\ UNCHANGED <<config, refreshing>>

\* Lines 340-343: a listed profile is chosen; setActiveProfile writes its name.
PickSelect(k, name) ==
    /\ k \in DOMAIN selecting
    /\ selecting[k].pc = "L298"
    /\ name \in selecting[k].listed
    /\ WriteActive(name)
    /\ Await(k, [NoSelect EXCEPT !.pc = "L434"])
    /\ NoMessage
    /\ ProfileFrame
    /\ UNCHANGED refreshing

\* Lines 345-346: "Add new profile" is chosen and the form is shown.
PickCreate(k) ==
    /\ k \in DOMAIN selecting
    /\ selecting[k].pc = "L298"
    /\ Await(k, [NoSelect EXCEPT !.pc = "L346"])
    /\ NoMessage
    /\ ProfileFrame
    /\ UNCHANGED <<config, refreshing>>

\* Lines 360-361 and 395-396 with pickProfile (925-942): "Edit profile" or
\* "Delete profile" is chosen and the profiles are listed again.
PickManage(k, action) ==
    /\ k \in DOMAIN selecting
    /\ selecting[k].pc = "L298"
    /\ LET profiles == getProfiles(config.profiles)
       IN  IF Len(profiles) = 0
           THEN /\ msg' = "noProfiles"
                /\ Return(k)
           ELSE /\ NoMessage
                /\ Await(k, [NoSelect EXCEPT
                        !.pc = IF action = "edit" THEN "L361" ELSE "L396",
                        !.listed = ProfileNames(profiles)])
    /\ ProfileFrame
    /\ UNCHANGED <<config, refreshing>>

\* Lines 365 and 400 with 405: the target is picked; its form, or the
\* confirmation of its deletion, is shown.
PickTarget(k, target) ==
    /\ k \in DOMAIN selecting
    /\ selecting[k].pc \in {"L361", "L396"}
    /\ target \in selecting[k].listed
    /\ Await(k, [NoSelect EXCEPT
            !.pc = IF selecting[k].pc = "L361" THEN "L365" ELSE "L405",
            !.target = target])
    /\ NoMessage
    /\ ProfileFrame
    /\ UNCHANGED <<config, refreshing>>

\* showProfileForm, lines 986-989 and 1018-1022: the form is cancelled or closed.
FormCancel(k) ==
    /\ k \in DOMAIN selecting
    /\ selecting[k].pc \in {"L285", "L346", "L365"}
    /\ Return(k)
    /\ NoMessage
    /\ ProfileFrame
    /\ UNCHANGED <<config, refreshing>>

\* showProfileForm, lines 1003-1010: the form refuses a name that is listed
\* unless it is the name of the profile being edited, and stays open.
FormDuplicate(k, payload) ==
    /\ payload.name # selecting[k].target
    /\ hasName(getProfiles(config.profiles), payload.name)

FormRefuse(k, payload) ==
    /\ k \in DOMAIN selecting
    /\ selecting[k].pc \in {"L285", "L346", "L365"}
    /\ FormDuplicate(k, payload)
    /\ msg' = "exists"
    /\ ProfileFrame
    /\ UNCHANGED <<store, refreshing>>

\* Lines 285-289 and 346-355: the form of a new profile is saved.
FormCreate(k, created) ==
    /\ k \in DOMAIN selecting
    /\ selecting[k].pc \in {"L285", "L346"}
    /\ ~FormDuplicate(k, created)
    /\ LET current == getProfiles(config.profiles)
       IN  IF selecting[k].pc = "L285"
           THEN /\ saveProfiles(<<created>>)
                /\ Await(k, [NoSelect EXCEPT !.pc = "L356", !.name = created.name])
                /\ NoMessage
           ELSE IF hasName(current, created.name)
           THEN /\ msg' = "exists"
                /\ Return(k)
                /\ UNCHANGED config
           ELSE /\ saveProfiles(saveCreated(current, created))
                /\ Await(k, [NoSelect EXCEPT !.pc = "L356", !.name = created.name])
                /\ NoMessage
    /\ ProfileFrame
    /\ UNCHANGED refreshing

\* Lines 290 and 356: the list is saved; setActiveProfile writes the new name.
CreateSaved(k) ==
    /\ k \in DOMAIN selecting
    /\ selecting[k].pc = "L356"
    /\ WriteActive(selecting[k].name)
    /\ Await(k, [NoSelect EXCEPT !.pc = "L434"])
    /\ NoMessage
    /\ ProfileFrame
    /\ UNCHANGED refreshing

\* Lines 365-382: the form of the target is saved.
FormEdit(k, updated) ==
    /\ k \in DOMAIN selecting
    /\ selecting[k].pc = "L365"
    /\ ~FormDuplicate(k, updated)
    /\ LET target == selecting[k].target
           current == getProfiles(config.profiles)
           profilesAfterEdit ==
               [j \in DOMAIN current |->
                   IF current[j].name # target THEN current[j] ELSE updated]
           same == {j \in DOMAIN profilesAfterEdit :
                       profilesAfterEdit[j].name = updated.name}
       IN  IF updated.name # target /\ Cardinality(same) > 1
           THEN /\ msg' = "exists"
                /\ Return(k)
                /\ UNCHANGED config
           ELSE /\ saveProfiles(profilesAfterEdit)
                /\ Await(k, [NoSelect EXCEPT
                        !.pc = "L382", !.target = target, !.name = updated.name,
                        !.wasActive =
                            getActiveProfile(config.profiles, config.active).name
                                = target])
                /\ NoMessage
    /\ ProfileFrame
    /\ UNCHANGED refreshing

\* Lines 383-391: the list is saved; the active name follows a renamed
\* target, or the status refresh begins.
EditSaved(k) ==
    /\ k \in DOMAIN selecting
    /\ selecting[k].pc = "L382"
    /\ IF config.active = selecting[k].target
       THEN /\ WriteActive(selecting[k].name)
            /\ Await(k, [NoSelect EXCEPT !.pc = "L434"])
            /\ UNCHANGED refreshing
       ELSE /\ CallUpdateStatusBar("other")
            /\ Return(k)
            /\ UNCHANGED config
    /\ NoMessage
    /\ ProfileFrame

\* Line 413 without its filter: nothing is removed.
remainingOf_All(profiles, name) == profiles

\* Line 413: the listed profiles of another name, in order
remainingOf(profiles, name) ==
    LET IsOther(item) == item.name # name
    IN  SelectSeq(profiles, IsOther)

\* deleteProfile, lines 410-415: the confirmation is answered.
DeleteConfirm(k, confirmation) ==
    /\ k \in DOMAIN selecting
    /\ selecting[k].pc = "L405"
    /\ IF confirmation # "Delete"
       THEN /\ Return(k)
            /\ UNCHANGED config
       ELSE LET target == selecting[k].target
                remaining == remainingOf(getProfiles(config.profiles), target)
            IN  /\ saveProfiles(remaining)
                /\ Await(k, [NoSelect EXCEPT
                        !.pc = "L415", !.target = target,
                        !.name = IF Len(remaining) > 0 THEN remaining[1].name
                                 ELSE "default"])
    /\ NoMessage
    /\ ProfileFrame
    /\ UNCHANGED refreshing

\* deleteProfile, lines 417-425: the list is saved; the active name falls
\* back when the deleted profile was active, or the status refresh begins.
DeleteSaved(k) ==
    /\ k \in DOMAIN selecting
    /\ selecting[k].pc = "L415"
    /\ IF config.active = selecting[k].target
       THEN /\ WriteActive(selecting[k].name)
            /\ Await(k, [NoSelect EXCEPT !.pc = "L425"])
            /\ UNCHANGED refreshing
       ELSE /\ CallUpdateStatusBar("other")
            /\ Return(k)
            /\ UNCHANGED config
    /\ NoMessage
    /\ ProfileFrame

\* Lines 425 and 434: the active name is written; the status refresh begins.
ActiveSaved(k) ==
    /\ k \in DOMAIN selecting
    /\ selecting[k].pc \in {"L425", "L434"}
    /\ CallUpdateStatusBar("other")
    /\ Return(k)
    /\ NoMessage
    /\ ProfileFrame
    /\ UNCHANGED config

\* ------------------------------------------ resolveFlutterProjectFolderPath
ResolveCallers == {"status", "start"}

\* what a step of the resolver, of the clock or of the disk leaves alone
ResolveFrame ==
    UNCHANGED <<runProcess, isRunStarting, session, ctx, proc, out, tasks,
                store, scanning, reload, deviceCall, lastAccepted, stopShown>>

\* Line 576 without its test of the key
CacheHit_AnyKey(cache, key, now) ==
    /\ cache # <<>>
    /\ now - cache[1].resolvedAt < CacheTtlMs

\* Line 576: the cached result answers a call with this key made now
CacheHit(cache, key, now) ==
    /\ cache # <<>>
    /\ cache[1].key = key
    /\ now - cache[1].resolvedAt < CacheTtlMs

\* Lines 567-578: updateStatusBar (line 445) or startFlutterRun (line 154)
\* calls the resolver.  Without workspace folders, or with a fresh cached
\* result of the same key, the call returns at once; else it goes on to read
\* the disk.
ResolveBegin(caller) ==
    /\ IF workspaceFolders = <<>>
       THEN /\ resolved' = [caller |-> caller, folderPath |-> NoPath,
                            cached |-> FALSE]
            /\ UNCHANGED resolving
       ELSE LET cacheKey_ == KeyOf(workspaceFolders, activePath)
            IN  IF CacheHit(cachedFlutterProjectFolder, cacheKey_, clock)
                THEN /\ resolved' =
                            [caller |-> caller,
                             folderPath |-> cachedFlutterProjectFolder[1].folderPath,
                             cached |-> TRUE]
                     /\ UNCHANGED resolving
                ELSE /\ Len(resolving) < MaxResolves
                     /\ resolving' = Append(resolving,
                            [caller |-> caller, roots |-> workspaceFolders,
                             active |-> activePath, key |-> cacheKey_,
                             now |-> clock])
                     /\ resolved' = NoReturn
    /\ UNCHANGED <<workspaceFolders, activePath, tree, clock,
                   cachedFlutterProjectFolder>>
    /\ ResolveFrame

\* Lines 580-616: the call reads the disk, caches what it found under the
\* key and the time of its beginning, and returns it.  The disk is read at
\* one instant; findFiles lists the manifests in an order of its own.
ResolveEnd(k) ==
    /\ k \in DOMAIN resolving
    /\ LET call == resolving[k]
       IN  \E folderPath \in ResolveOutcomes(call.roots, call.active, tree) :
               /\ cachedFlutterProjectFolder' =
                      <<[key |-> call.key, resolvedAt |-> call.now,
                         folderPath |-> folderPath]>>
               /\ resolved' = [caller |-> call.caller,
                               folderPath |-> folderPath, cached |-> FALSE]
    /\ resolving' = Without(resolving, k)
    /\ UNCHANGED <<workspaceFolders, activePath, tree, clock>>
    /\ ResolveFrame

\* Time passes.
Tick ==
    /\ clock + TickMs <= MaxClock
    /\ clock' = clock + TickMs
    /\ resolved' = NoReturn
    /\ UNCHANGED <<workspaceFolders, activePath, tree,
                   cachedFlutterProjectFolder, resolving>>
    /\ ResolveFrame

\* Manifests and folders are written or removed on the disk.
DiskChanged(files) ==
    /\ files # tree
    /\ tree' = files
    /\ resolved' = NoReturn
    /\ UNCHANGED <<workspaceFolders, activePath, clock,
                   cachedFlutterProjectFolder, resolving>>
    /\ ResolveFrame

\* Another editor becomes the active one, or none is.
EditorChanged(path) ==
    /\ path # activePath
    /\ activePath' = path
    /\ resolved' = NoReturn
    /\ UNCHANGED <<workspaceFolders, tree, clock,
                   cachedFlutterProjectFolder, resolving>>
    /\ ResolveFrame

\* ---------------------------------------------------------- process events
\* The process ends (by itself or after SIGTERM); its input is destroyed.
\* The code does not listen for the exit event.
ProcExit(p) ==
    /\ proc[p].state = "alive"
    /\ proc' = [proc EXCEPT ![p].state = "exited"]
    /\ NoMessage
    /\ NoWrite
    /\ NoShow
    /\ NoFault
    /\ NoOutput
    /\ UNCHANGED <<runProcess, isRunStarting, session, ctx, others, tasks>>

\* The error event (spawn failed), lines 247-253.  Without an observer
\* attached the event is lost.
ProcError(p) ==
    /\ proc[p].state = "alive"
    /\ IF proc[p].attached
       THEN /\ stopRun([proc EXCEPT ![p].state = "exited"])
            /\ msg' = "spawnError"
            /\ UNCHANGED <<isRunStarting, ctxRunning, ctxStarting, store, scanning,
                           reload, project, deviceCall, stopShown, startPc, startLocal,
                           refreshing>>
       ELSE /\ proc' = [proc EXCEPT ![p].state = "exited"]
            /\ NoMessage
            /\ UNCHANGED <<runProcess, isRunStarting, session, ctx, others, tasks>>
    /\ NoWrite
    /\ NoShow
    /\ NoFault
    /\ NoOutput

\* The close event, lines 255-258.  Without an observer attached the event
\* is lost.
ProcClose(p) ==
    /\ proc[p].state = "exited"
    /\ IF proc[p].attached
       THEN /\ stopRun([proc EXCEPT ![p].state = "closed"])
            /\ UNCHANGED <<isRunStarting, ctxRunning, ctxStarting, store, scanning,
                           reload, project, deviceCall, stopShown, startPc, startLocal,
                           refreshing>>
       ELSE /\ proc' = Reap([proc EXCEPT ![p].state = "closed"], runProcess)
            /\ UNCHANGED <<runProcess, isRunStarting, session, ctx, others, tasks>>
    /\ NoMessage
    /\ NoWrite
    /\ NoShow
    /\ NoFault
    /\ NoOutput

\* Line 818 (and line 840): the web-app scanner works only in a session that
\* is web-targeted and opens in a tab.
WebAppScannerActive == currentRunIsWeb /\ currentRunOpensInTab

\* Lines 843-845 left out: the preview opens whatever the latch holds.
maybeOpenWebAppPreview_NoLatch == WebAppScannerActive

\* maybeOpenWebAppPreview, lines 840-848: the call opens the preview
maybeOpenWebAppPreview == WebAppScannerActive /\ ~hasOpenedWebPreviewForRun

\* A chunk on stdout or stderr, lines 234-245: captureDevToolsUrl (798-815) up
\* to its first await, then captureWebAppUrl (817-837) with
\* maybeOpenWebAppPreview (839-849) up to the call of simpleBrowser.show.
ProcData(p, chunk) ==
    /\ proc[p].state \in {"alive", "exited"}
    /\ proc[p].attached
    /\ appended' = chunk
    /\ NoFault
    /\ LET stored == Scanned[chunk].stored
           url == Scanned[chunk].accepted
           devtools == stored # <<>>
           webapp == WebAppScannerActive /\ url # NoUrl
       IN  /\ Len(stored) > 1 => Len(scanning) < MaxScans
           /\ latestDevToolsUrl' = IF devtools THEN Head(stored) ELSE latestDevToolsUrl
           /\ lastAccepted' = IF devtools THEN stored[Len(stored)] ELSE lastAccepted
           /\ ctxHasDevToolsUrl' = IF devtools THEN TRUE ELSE ctxHasDevToolsUrl
           /\ scanning' = IF Len(stored) > 1 THEN Append(scanning, Tail(stored))
                          ELSE scanning
           /\ latestWebAppUrl' = IF webapp THEN url ELSE latestWebAppUrl
           /\ hasOpenedWebPreviewForRun' =
                 IF webapp /\ maybeOpenWebAppPreview THEN TRUE
                 ELSE hasOpenedWebPreviewForRun
           /\ shown' = IF webapp /\ maybeOpenWebAppPreview THEN url ELSE NoUrl
    /\ NoMessage
    /\ NoWrite
    /\ UNCHANGED <<runProcess, isRunStarting, currentRunIsWeb, currentRunOpensInTab,
                   ctxRunning, ctxStarting, store, reload, project, deviceCall, stopShown,
                   proc, tasks>>

\* captureDevToolsUrl resumes after the await of line 813 and goes on to the
\* next line that makes it store a URL.
ScanResume(k) ==
    /\ k \in 1..Len(scanning)
    /\ latestDevToolsUrl' = Head(scanning[k])
    /\ ctxHasDevToolsUrl' = TRUE
    /\ scanning' = IF Len(scanning[k]) > 1 THEN [scanning EXCEPT ![k] = Tail(@)]
                   ELSE Without(scanning, k)
    /\ NoMessage
    /\ NoWrite
    /\ NoShow
    /\ NoFault
    /\ NoOutput
    /\ UNCHANGED <<runProcess, isRunStarting, latestWebAppUrl, hasOpenedWebPreviewForRun,
                   currentRunIsWeb, currentRunOpensInTab, ctxRunning, ctxStarting,
                   store, reload, project, deviceCall, lastAccepted, stopShown, proc, tasks>>

\* ----------------------------------------------------------- specification
Next ==
    \/ RunCmd
    \/ RunWebInTabCmd
    \/ StopCmd
    \/ RefreshEvent
    \/ \E caller \in Callers : RefreshProject(caller)
    \/ \E caller \in Callers : RefreshResolvedNone(caller)
    \/ \E caller \in Callers : RefreshNoProject(caller)
    \/ \E caller \in Callers : RefreshNoProjectDone(caller)
    \/ StopSetRunning
    \/ \E i \in Starts : StartNoFolder(i)
    \/ \E i \in Starts : StartFolder(i)
    \/ \E i \in Starts : StartNoDevice(i)
    \/ \E i \in Starts : StartNoDeviceDone(i)
    \/ \E i \in Starts : StartSelectDeviceFails(i)
    \/ \E i \in Starts : StartNotWeb(i)
    \/ \E i \in Starts : StartPrepare(i)
    \/ \E i \in Starts : StartSpawn(i)
    \/ \E i \in Starts : StartAttach(i)
    \/ \E p \in Procs : ProcExit(p)
    \/ \E p \in Procs : ProcError(p)
    \/ \E p \in Procs : ProcClose(p)
    \/ \E p \in Procs, chunk \in Chunks : ProcData(p, chunk)

Spec == Init /\ [][Next]_vars

\* Starts and stops alone, over every configuration: what spawn is given.
NextArgs ==
    \/ RunCmd
    \/ RunWebInTabCmd
    \/ StopCmd
    \/ StopSetRunning
    \/ \E caller \in Callers : RefreshProject(caller)
    \/ \E i \in Starts : StartNoFolder(i)
    \/ \E i \in Starts : StartFolder(i)
    \/ \E i \in Starts : StartNoDevice(i)
    \/ \E i \in Starts : StartNoDeviceDone(i)
    \/ \E i \in Starts : StartSelectDeviceFails(i)
    \/ \E i \in Starts : StartNotWeb(i)
    \/ \E i \in Starts : StartPrepare(i)
    \/ \E i \in Starts : StartSpawn(i)
    \/ \E i \in Starts : StartAttach(i)

SpecArgs == InitArgs /\ [][NextArgs]_vars

\* The continuation of the start i after the host call it waits for.
StartStep(i) ==
    \/ StartNoFolder(i)
    \/ StartFolder(i)
    \/ StartNoDevice(i)
    \/ StartNoDeviceDone(i)
    \/ StartSelectDeviceFails(i)
    \/ StartNotWeb(i)
    \/ StartPrepare(i)
    \/ StartSpawn(i)
    \/ StartAttach(i)

\* Every host call returns: a start, a stop and a status refresh that wait
\* for one go on.  The fairness of the starts is strong because the bound
\* MaxRefresh on the refreshes in progress, which the code does not have, can
\* disable the finally block again and again.
HostCallsReturn ==
    /\ \A i \in Starts : SF_vars(StartStep(i))
    /\ WF_vars(StopSetRunning)
    /\ \A caller \in Callers : WF_vars(RefreshProject(caller))

SpecStarts == InitArgs /\ [][NextArgs]_vars /\ HostCallsReturn

\* A run session and all the output its process may print.
NextScan ==
    \/ RunCmd
    \/ RunWebInTabCmd
    \/ StopCmd
    \/ StopSetRunning
    \/ \E caller \in Callers : RefreshProject(caller)
    \/ \E i \in Starts : StartNoFolder(i)
    \/ \E i \in Starts : StartFolder(i)
    \/ \E i \in Starts : StartNoDevice(i)
    \/ \E i \in Starts : StartNoDeviceDone(i)
    \/ \E i \in Starts : StartSelectDeviceFails(i)
    \/ \E i \in Starts : StartNotWeb(i)
    \/ \E i \in Starts : StartPrepare(i)
    \/ \E i \in Starts : StartSpawn(i)
    \/ \E i \in Starts : StartAttach(i)
    \/ \E p \in Procs : ProcExit(p)
    \/ \E p \in Procs : ProcClose(p)
    \/ \E p \in Procs, chunk \in ScanChunks : ProcData(p, chunk)
    \/ \E k \in 1..MaxScans : ScanResume(k)

SpecScan == Init /\ [][NextScan]_vars

\* A run session with saves, the debounce timer and the reload command.
NextReload ==
    \/ RunCmd
    \/ StopCmd
    \/ StopSetRunning
    \/ HotReloadCmd
    \/ \E doc \in Documents, autoHotReload \in BOOLEAN : DocumentSaved(doc, autoHotReload)
    \/ \E t \in Timers : TimerFire(t)
    \/ \E caller \in Callers : RefreshProject(caller)
    \/ \E i \in Starts : StartNoFolder(i)
    \/ \E i \in Starts : StartFolder(i)
    \/ \E i \in Starts : StartNoDevice(i)
    \/ \E i \in Starts : StartNoDeviceDone(i)
    \/ \E i \in Starts : StartSelectDeviceFails(i)
    \/ \E i \in Starts : StartPrepare(i)
    \/ \E i \in Starts : StartSpawn(i)
    \/ \E i \in Starts : StartAttach(i)
    \/ \E p \in Procs : ProcExit(p)
    \/ \E p \in Procs : ProcClose(p)

SpecReload == Init /\ [][NextReload]_vars

\* The profile store under the profile command, with starts that read it.
NextProfiles ==
    \/ SelectProfileCmd
    \/ \E k \in 1..MaxSelects : PickNothing(k)
    \/ \E k \in 1..MaxSelects, name \in ProfileNameSet : PickSelect(k, name)
    \/ \E k \in 1..MaxSelects : PickCreate(k)
    \/ \E k \in 1..MaxSelects, action \in {"edit", "delete"} : PickManage(k, action)
    \/ \E k \in 1..MaxSelects, target \in ProfileNameSet : PickTarget(k, target)
    \/ \E k \in 1..MaxSelects : FormCancel(k)
    \/ \E k \in 1..MaxSelects, payload \in FormPayloads : FormRefuse(k, FormResult(payload))
    \/ \E k \in 1..MaxSelects, payload \in FormPayloads : FormCreate(k, FormResult(payload))
    \/ \E k \in 1..MaxSelects : CreateSaved(k)
    \/ \E k \in 1..MaxSelects, payload \in FormPayloads : FormEdit(k, FormResult(payload))
    \/ \E k \in 1..MaxSelects : EditSaved(k)
    \/ \E k \in 1..MaxSelects, confirmation \in {"Delete", "dismissed"} :
          DeleteConfirm(k, confirmation)
    \/ \E k \in 1..MaxSelects : DeleteSaved(k)
    \/ \E k \in 1..MaxSelects : ActiveSaved(k)
    \/ \E caller \in Callers : RefreshProject(caller)

SpecProfiles == InitProfiles /\ [][NextProfiles]_vars

\* Starts over a store that the settings editor changes, with the operations
\* that list the profiles.
NextStore ==
    \/ \E settings \in Stores : ConfigurationChanged(settings)
    \/ SelectProfileCmd
    \/ \E k \in 1..MaxSelects, action \in {"edit", "delete"} : PickManage(k, action)
    \/ \E k \in 1..MaxSelects : PickNothing(k)
    \/ RunCmd
    \/ StopCmd
    \/ StopSetRunning
    \/ \E caller \in Callers : RefreshProject(caller)
    \/ \E i \in Starts : StartNoFolder(i)
    \/ \E i \in Starts : StartFolder(i)
    \/ \E i \in Starts : StartNoDevice(i)
    \/ \E i \in Starts : StartNoDeviceDone(i)
    \/ \E i \in Starts : StartSelectDeviceFails(i)
    \/ \E i \in Starts : StartPrepare(i)
    \/ \E i \in Starts : StartSpawn(i)
    \/ \E i \in Starts : StartAttach(i)

SpecStore == InitProfiles /\ [][NextStore]_vars

\* The project resolver, its cache, the clock and the disk.
NextResolve ==
    \/ \E caller \in ResolveCallers : ResolveBegin(caller)
    \/ \E k \in 1..MaxResolves : ResolveEnd(k)
    \/ Tick
    \/ \E files \in Trees : DiskChanged(files)
    \/ \E path \in ActivePaths : EditorChanged(path)

SpecResolve == InitResolve /\ [][NextResolve]_vars

\* ------------------------------------------------------------- vocabulary
StartsInFlight == {i \in Starts : startPc[i] # "idle"}

\* a step on which spawn created a process
Spawned == \E p \in Procs : proc[p].state = "none" /\ proc'[p].state = "alive"

\* a step on which a process was sent SIGTERM
Signalled == \E p \in Procs : ~proc[p].killed /\ proc'[p].killed

\* a step that enters startFlutterRun
StartBegan == \E i \in Starts : startPc[i] = "idle" /\ startPc'[i] # "idle"

\* a step that wrote a directive to a process input
Wrote == stdin' # NoInput

SessionIsReset ==
    /\ latestDevToolsUrl = NoUrl
    /\ latestWebAppUrl = NoUrl
    /\ ~hasOpenedWebPreviewForRun
    /\ ~currentRunIsWeb
    /\ ~currentRunOpensInTab

Quiescent == StartsInFlight = {} /\ stopping = 0 /\ Refreshing = 0

\* ------------------------------------------------------------------ claims

\* C1: a process is spawned only when no handle is held and exactly one
\* start is in flight; a run or run-web-in-tab request made while a start is
\* in flight only shows the warning; a held handle is never replaced by
\* another handle.
C1_SpawnOnlyWhenIdle ==
    [][ /\ Spawned => runProcess = None /\ Cardinality(StartsInFlight) = 1
        /\ StartBegan => ~isRunStarting /\ runProcess = None
        /\ (RunCmd \/ RunWebInTabCmd) /\ isRunStarting =>
              /\ msg' = "starting"
              /\ ~Wrote /\ ~Spawned /\ ~StartBegan
              /\ UNCHANGED <<runProcess, isRunStarting, session, ctx, proc, tasks>>
        /\ runProcess # None /\ runProcess' # runProcess => runProcess' = None
      ]_vars

\* a request was just rejected while the start in flight had already spawned
C1_Witness ==
    /\ msg = "starting"
    /\ \E i \in Starts : startPc[i] = "L232"
    /\ runProcess # None

\* C2 as stated: whenever a handle is held, the run command writes "R\n" to
\* the process input and creates no process handle.
C2_AsStated ==
    [][ RunCmd /\ runProcess # None =>
            /\ stdin' = Write(runProcess, "R\n")
            /\ ~Spawned /\ runProcess' = runProcess
      ]_vars

\* C2 amended: whenever a handle is held, the run command creates no process
\* handle and begins no start; it writes "R\n" to the input of the held
\* process when no start is in flight and that process is alive and not
\* killed, and otherwise writes nothing and only shows a warning.
C2_RunWhileActive ==
    [][ RunCmd /\ runProcess # None =>
            /\ ~Spawned /\ ~StartBegan /\ runProcess' = runProcess
            /\ IF ~isRunStarting /\ proc[runProcess].state = "alive"
                    /\ ~proc[runProcess].killed
               THEN stdin' = Write(runProcess, "R\n")
               ELSE ~Wrote /\ msg' \in {"starting", "noRun"}
      ]_vars

\* the restart directive was just written to the held process
C2_Witness ==
    /\ runProcess # None
    /\ stdin = Write(runProcess, "R\n")

\* C3 as stated: while the starting flag is true, the running flag is false
\* and no process handle is held.
C3_AsStated == isRunStarting => ~ctxRunning /\ runProcess = None

\* C3 amended: while the starting flag is true exactly one start is in
\* flight, and a process handle is held only once that start has spawned the
\* process and waits to attach its observers (the running flag is set at the
\* spawn, before the starting flag is cleared).
C3_StartingThenRunning ==
    isRunStarting =>
        /\ Cardinality(StartsInFlight) = 1
        /\ \A i \in StartsInFlight : runProcess # None => startPc[i] = "L232"

\* the start in flight has spawned: starting and running overlap
C3_Witness == isRunStarting /\ ctxRunning /\ runProcess # None

\* C4: the running flag becomes true only at the spawn of a start in flight;
\* a handle appears only while starting, starting begins only from idle, and
\* a held handle is given up only by stop, a process error or a process
\* close.
C4_SessionCycle ==
    [][ /\ ~ctxRunning /\ ctxRunning' =>
              /\ isRunStarting /\ Spawned
              /\ \E i \in Starts : startPc[i] = "L225" /\ startPc'[i] = "L232"
        /\ runProcess = None /\ runProcess' # None => isRunStarting /\ isRunStarting'
        /\ ~isRunStarting /\ isRunStarting' => runProcess = None /\ runProcess' = None
        /\ runProcess # None /\ runProcess' = None =>
              \/ StopCmd
              \/ \E p \in Procs : ProcError(p)
              \/ \E p \in Procs : ProcClose(p)
      ]_vars

\* a session ran with its observers attached and was torn down again
C4_Witness ==
    /\ runProcess = None /\ ~isRunStarting /\ ~ctxRunning /\ Quiescent
    /\ \E p \in Procs : proc[p].killed /\ proc[p].attached

\* C5: stop with no handle held sends no signal and leaves no handle and
\* every session field at its initial value; the running flag is false when
\* stop has set it; a stop from the reset state changes nothing of it.
C5_StopIdempotent ==
    [][ /\ StopCmd /\ runProcess = None =>
              /\ ~Signalled /\ proc' = proc
              /\ runProcess' = None /\ SessionIsReset'
        /\ StopCmd /\ runProcess = None /\ SessionIsReset /\ ~ctxHasDevToolsUrl =>
              UNCHANGED <<runProcess, isRunStarting, session, ctxHasDevToolsUrl, proc>>
        /\ StopSetRunning => ~ctxRunning'
      ]_vars

\* a stop is in progress that found no handle: the start in flight has not
\* spawned yet
C5_Witness ==
    /\ stopping > 0 /\ runProcess = None /\ SessionIsReset
    /\ \E i \in Starts : startPc[i] = "L154"
    /\ \A p \in Procs : proc[p].state = "none"

\* C6 as stated, in the form a finite run refutes: once a process has
\* closed and no handler is in progress, its handle is no longer held.
C6_AsStated ==
    Quiescent => \A p \in Procs : proc[p].state = "closed" => runProcess # p

\* C7: the step that gives up the handle also resets the DevTools URL, the
\* web-app URL, the preview latch, the web flag and the tab flag.
C7_AtomicTeardown ==
    [][ runProcess # None /\ runProcess' = None => SessionIsReset' ]_vars

\* stop has just torn down a session whose observers were attached
C7_Witness ==
    /\ runProcess = None /\ SessionIsReset /\ stopping > 0
    /\ \E p \in Procs : proc[p].killed /\ proc[p].attached /\ proc[p].state = "alive"

\* a blank or absent string
Blank(str) == str = Undef \/ Trim(str) = EmptyStr

\* the persisted profiles, and the synthetic default
Persisted == {config.profiles[k] : k \in DOMAIN config.profiles} \cup {DefaultProfile}

\* C8: the arguments of a spawned process are run, -t, the entrypoint, -d,
\* the device id, then --flavor and the flavor exactly when the trimmed
\* flavor is not empty; the entrypoint is the trimmed profile entrypoint, or
\* lib/main.dart when that is blank.
C8_SpawnArguments ==
    \A p \in Procs :
        proc[p].args # <<>> =>
            LET args == proc[p].args
            IN  \E raw \in Persisted :
                  /\ raw.name = proc[p].profile.name
                  /\ Len(args) >= 5
                  /\ args[1] = S_run /\ args[2] = S_t /\ args[4] = S_d
                  /\ args[3] # EmptyStr
                  /\ args[3] = IF Blank(raw.dartEntrypoint) THEN S_libmain
                               ELSE Trim(raw.dartEntrypoint)
                  /\ args[5] \in {proc[p].selectedDevice, S_webserver}
                  /\ IF Blank(raw.flavor) THEN Len(args) = 5
                     ELSE Len(args) = 7 /\ args[6] = S_flavor
                            /\ args[7] = Trim(raw.flavor)

\* a process spawned for the profile whose entrypoint and flavor are blank
C8_Witness ==
    \E p \in Procs :
        /\ proc[p].state = "alive" /\ proc[p].profile.name = "blank"
        /\ proc[p].args = <<S_run, S_t, S_libmain, S_d, proc[p].selectedDevice>>

\* C9: the device id given to spawn is web-server when forceWebInTab was
\* requested and the selected device is web-class, and the selected device
\* id verbatim otherwise; a start with forceWebInTab spawns only for a
\* web-class device.
C9_EffectiveDevice ==
    \A p \in Procs :
        proc[p].args # <<>> =>
            /\ proc[p].forceWebInTab => isWebDeviceId(proc[p].selectedDevice)
            /\ proc[p].args[5] =
                  IF proc[p].forceWebInTab /\ isWebDeviceId(proc[p].selectedDevice)
                  THEN S_webserver ELSE proc[p].selectedDevice

\* Run Web in Tab spawned for the selected device Chrome
C9_Witness ==
    \E p \in Procs :
        /\ proc[p].state = "alive" /\ proc[p].forceWebInTab
        /\ proc[p].selectedDevice = <<"C", "h", "r", "o", "m", "e">>
        /\ proc[p].args[5] = S_webserver

\* a step of a start that aborts, its closing status refresh included
AbortStep ==
    \/ \E i \in Starts : StartNoFolder(i)
    \/ \E i \in Starts : StartNoDevice(i)
    \/ \E i \in Starts : StartNoDeviceDone(i)
    \/ \E i \in Starts : StartSelectDeviceFails(i)
    \/ \E i \in Starts : StartNotWeb(i)
    \/ RefreshProject("abort")
    \/ RefreshResolvedNone("abort")
    \/ RefreshNoProject("abort")
    \/ RefreshNoProjectDone("abort")

\* C10 as stated: no step of a start that aborts spawns a process or changes
\* the handle, the running flag or a session field, and the starting flag is
\* false once the finally block has run.
C10_AsStated ==
    [][ /\ AbortStep =>
              /\ ~Spawned
              /\ UNCHANGED <<runProcess, ctxRunning, session>>
        /\ (\E i \in Starts : StartNoFolder(i) \/ StartNoDeviceDone(i)
                              \/ StartSelectDeviceFails(i) \/ StartNotWeb(i))
              => ~isRunStarting'
      ]_vars

\* a step that tears the session down
Teardown == StopCmd \/ \E p \in Procs : ProcError(p) \/ ProcClose(p)

\* a chunk of output arrives
Data == appended' # EmptyStr

\* C11: the preview is opened only by a chunk that arrives while the latch
\* is false, and that step sets the latch; a chunk that arrives while the
\* latch is true opens nothing; the latch goes back to false only in the
\* field reset of a start or in a teardown.
C11_PreviewOnce ==
    [][ /\ shown' # NoUrl =>
              /\ Data /\ WebAppScannerActive
              /\ ~hasOpenedWebPreviewForRun /\ hasOpenedWebPreviewForRun'
              /\ shown' = latestWebAppUrl'
        /\ hasOpenedWebPreviewForRun /\ Data =>
              shown' = NoUrl /\ hasOpenedWebPreviewForRun'
        /\ hasOpenedWebPreviewForRun /\ ~hasOpenedWebPreviewForRun' =>
              Teardown \/ \E i \in Starts : StartPrepare(i)
      ]_vars

\* a tab session that has taken the URL of the DevTools chunk and then the
\* IPv6 loopback URL, the preview being open already
C11_Witness ==
    /\ runProcess # None /\ currentRunOpensInTab /\ hasOpenedWebPreviewForRun
    /\ shown = NoUrl
    /\ latestDevToolsUrl = <<"h", "t", "t", "p", ":", "/", "/", "1", "2", "7", ".", "0", ".", "0", ".", "1", ":", "9", "1", "0", "0", "/", "?", "u", "r", "i", "=", "x">>
    /\ latestWebAppUrl = <<"h", "t", "t", "p", ":", "/", "/", "[", ":", ":", "1", "]", ":", "3", "0", "0", "0", "/">>

LoopbackHosts == {S_ipv4loopback, S_localhost, S_ipv6loopback}

\* the canonical form of the first URL-shaped substring of a chunk that
\* parses as an absolute URL with one of the schemes and a loopback host
FirstLoopbackUrl(chunk, schemes) ==
    LET matches == UrlMatches(chunk, 1)
        Accepting(i) ==
            /\ ParseUrl(matches[i]).ok
            /\ ParseUrl(matches[i]).protocol \in schemes
            /\ ParseUrl(matches[i]).hostname \in LoopbackHosts
        good == {i \in 1..Len(matches) : Accepting(i)}
    IN  IF good = {} THEN NoUrl
        ELSE Href(ParseUrl(matches[CHOOSE i \in good : \A j \in good : i <= j]))

C12_HttpOrHttps == [chunk \in ScanChunks |-> FirstLoopbackUrl(chunk, {S_http, S_https})]
C12_HttpOnly == [chunk \in ScanChunks |-> FirstLoopbackUrl(chunk, {S_http})]

\* of the URLs the chunks hold, those with the scheme http and a loopback host
C12_LoopbackHttpUrls ==
    LET matches == UNION { {UrlMatches(chunk, 1)[i] : i \in 1..Len(UrlMatches(chunk, 1))} :
                             chunk \in ScanChunks }
        valid == {match \in matches : ParseUrl(match).ok}
    IN  { Href(ParseUrl(match)) : match \in
            {m \in valid : /\ ParseUrl(m).protocol = S_http
                           /\ ParseUrl(m).hostname \in LoopbackHosts} }

\* C12 as stated: in a web tab session every chunk makes the scanner take
\* its first valid http or https URL with a loopback host; in any other
\* session, and for any other chunk, the web-app URL stays as it is.
C12_AsStated ==
    [][ Data =>
            IF WebAppScannerActive /\ C12_HttpOrHttps[appended'] # NoUrl
            THEN latestWebAppUrl' = C12_HttpOrHttps[appended']
            ELSE UNCHANGED latestWebAppUrl
      ]_vars

\* C12 amended: the same with the scheme http alone; and the web-app URL,
\* when known, is an http URL with a loopback host.
C12_LoopbackHttp ==
    [][ /\ Data =>
              IF WebAppScannerActive /\ C12_HttpOnly[appended'] # NoUrl
              THEN latestWebAppUrl' = C12_HttpOnly[appended']
              ELSE UNCHANGED latestWebAppUrl
        /\ latestWebAppUrl' # NoUrl => latestWebAppUrl' \in C12_LoopbackHttpUrls
      ]_vars

\* the scanner has passed over a remote URL and taken the local one behind it
C12_Witness ==
    /\ runProcess # None /\ currentRunOpensInTab
    /\ latestWebAppUrl = <<"h", "t", "t", "p", ":", "/", "/", "l", "o", "c", "a", "l", "h", "o", "s", "t", ":", "8", "0", "8", "1", "/">>
    /\ shown = latestWebAppUrl

\* the URLs the lines of a chunk hold for the DevTools scanner: of each line
\* with the marker whose first URL validates, the canonical form of that URL
C13_Lines ==
    [chunk \in ScanChunks |->
        LET lines == SplitLines(chunk)
            Marked(i) == Includes(ToLowerCase(lines[i]), S_devtools)
            First(i) == ParseUrl(Head(UrlMatches(lines[i], 1)))
            Accepting(i) ==
                /\ Marked(i) /\ UrlMatches(lines[i], 1) # <<>>
                /\ First(i).ok /\ First(i).protocol \in {S_http, S_https}
            RECURSIVE From(_)
            From(i) == IF i > Len(lines) THEN <<>>
                       ELSE IF Accepting(i) THEN <<Href(First(i))>> \o From(i + 1)
                       ELSE From(i + 1)
        IN  From(1)]

\* C13: a chunk makes the DevTools scanner store, line by line, the
\* canonical first URL of every line that holds the marker and whose first
\* URL validates, setting the signal each time; a chunk without such a line
\* changes neither the URL nor the signal.
C13_DevToolsScanner ==
    [][ /\ Data =>
              IF C13_Lines[appended'] # <<>>
              THEN /\ latestDevToolsUrl' = Head(C13_Lines[appended'])
                   /\ ctxHasDevToolsUrl'
                   /\ scanning' = IF Len(C13_Lines[appended']) > 1
                                  THEN Append(scanning, Tail(C13_Lines[appended']))
                                  ELSE scanning
              ELSE UNCHANGED <<latestDevToolsUrl, ctxHasDevToolsUrl, scanning>>
        /\ \A k \in 1..Len(scanning) :
              ScanResume(k) =>
                  latestDevToolsUrl' = Head(scanning[k]) /\ ctxHasDevToolsUrl'
      ]_vars

\* the third line of the chunk of three lines has been stored
C13_Witness ==
    /\ runProcess # None /\ ctxHasDevToolsUrl /\ scanning = <<>>
    /\ latestDevToolsUrl = <<"h", "t", "t", "p", "s", ":", "/", "/", "h", "/">>

\* C14 as stated: while the handle of a session is held, a known DevTools
\* URL stays known and the signal stays true.
C14_AsStated ==
    [][ runProcess # None /\ runProcess' = runProcess =>
            /\ latestDevToolsUrl # NoUrl => latestDevToolsUrl' # NoUrl
            /\ ctxHasDevToolsUrl => ctxHasDevToolsUrl'
      ]_vars

\* a save that passes the four tests of lines 895-910
Qualifies(doc, autoHotReload) ==
    /\ doc.languageId = "dart"
    /\ runProcess # None
    /\ doc.inWorkspace
    /\ autoHotReload

\* a step that wrote the reload directive
WroteReload == Wrote /\ stdin'.text = "r\n"

\* C15: at most one debounce timer is pending; a qualifying save cancels
\* the pending timer and schedules a new one without writing anything, so the
\* saves of a burst leave one timer; a timer that fires leaves none pending
\* and writes the reload directive exactly once while the process is live;
\* the directive is written by no step other than a firing timer and the
\* manual reload command.
C15_Debounce ==
    [][/\ Cardinality(timers') <= 1
       /\ \A doc \in Documents, autoHotReload \in BOOLEAN :
             DocumentSaved(doc, autoHotReload) /\ Qualifies(doc, autoHotReload)
             => /\ timers' = {hotReloadDebounceTimer'}
                /\ hotReloadDebounceTimer' \notin timers
                /\ ~Wrote
       /\ \A t \in Timers :
             TimerFire(t)
             => /\ timers' = {}
                /\ IF NoLiveInput THEN ~Wrote
                   ELSE stdin' = Write(runProcess, "r\n")
       /\ WroteReload => HotReloadCmd \/ \E t \in Timers : TimerFire(t)
      ]_vars

\* A second timer has fired and written the directive to the held process.
C15_Witness ==
    /\ runProcess # None
    /\ stdin = Write(runProcess, "r\n")
    /\ hotReloadDebounceTimer = 2
    /\ timers = {}

\* a step of triggerHotReload or triggerHotRestart
ManualTrigger == HotReloadCmd \/ (RunCmd /\ ~StartInFlight /\ runProcess # None)

SaveTrigger == \E t \in Timers : TimerFire(t)

\* C16: a directive is written only to the held handle of a process that is
\* not marked killed and whose input is usable; a hot reload or hot restart
\* without such a process writes nothing and changes no state, shows the
\* warning when triggered manually and nothing when triggered by a save.
C16_LiveInputOnly ==
    [][/\ Wrote => /\ runProcess # None
                   /\ stdin'.to = runProcess
                   /\ ~proc[runProcess].killed
                   /\ proc[runProcess].state = "alive"
       /\ (ManualTrigger \/ SaveTrigger) /\ NoLiveInput
          => /\ ~Wrote
             /\ UNCHANGED <<runProcess, isRunStarting, session, ctx, proc,
                            tasks, store, scanning, hotReloadDebounceTimer>>
       /\ ManualTrigger /\ NoLiveInput => msg' = "noRun"
       /\ SaveTrigger /\ NoLiveInput => msg' = "none"
      ]_vars

\* The warning was shown for a handle whose process has exited.
C16_Witness ==
    /\ msg = "noRun"
    /\ stdin = NoInput
    /\ runProcess # None
    /\ proc[runProcess].state = "exited"

\* C17: a save schedules a reload only when the document is dart, a handle
\* is held, the document is in a workspace folder and hotReloadOnSave is
\* true; any other save changes no state and leaves the timers as they were;
\* no other step schedules a timer.
C17_SaveFrame ==
    [][/\ \A doc \in Documents, autoHotReload \in BOOLEAN :
             DocumentSaved(doc, autoHotReload)
             => IF Qualifies(doc, autoHotReload)
                THEN hotReloadDebounceTimer' \in timers' \ timers
                ELSE /\ UNCHANGED <<runProcess, isRunStarting, session, ctx,
                                    proc, tasks, others>>
                     /\ msg' = "none"
                     /\ ~Wrote
       /\ timers' \ timers # {}
          => \E doc \in Documents, autoHotReload \in BOOLEAN :
                DocumentSaved(doc, autoHotReload) /\ Qualifies(doc, autoHotReload)
      ]_vars

\* A reload was scheduled and the session ended: the timer is still pending
\* and no save qualifies.
C17_Witness ==
    /\ runProcess = None
    /\ hotReloadDebounceTimer # None
    /\ timers = {hotReloadDebounceTimer}

\* the profiles of a list
Listed(profiles) == {profiles[k] : k \in DOMAIN profiles}

\* a step of an operation that lists the profiles and saves nothing
ListingStep ==
    \/ SelectProfileCmd
    \/ \E k \in 1..MaxSelects, action \in {"edit", "delete"} : PickManage(k, action)
    \/ \E i \in Starts : StartFolder(i)
    \/ \E caller \in Callers : RefreshProject(caller)

\* C18: the list of profiles is never empty; when nothing valid is persisted
\* it is the one profile default, lib/main.dart, no flavor; the active
\* profile is always one of the listed; no start aborts for lack of a
\* profile; an operation that only lists leaves the persisted store as it was.
C18_NeverEmpty ==
    /\ [](LET profiles == getProfiles(config.profiles)
          IN  /\ Len(profiles) > 0
              /\ (\A k \in DOMAIN config.profiles :
                     config.profiles[k].name = NotAString)
                 => /\ Len(profiles) = 1
                    /\ profiles[1].name = "default"
                    /\ profiles[1].dartEntrypoint = S_libmain
                    /\ profiles[1].flavor = EmptyStr
              /\ getActiveProfile(config.profiles, config.active) \in Listed(profiles)
              /\ msg # "noProfile")
    /\ [][ListingStep => UNCHANGED config]_vars

\* A start has read the default profile from a store that persists none.
C18_Witness ==
    /\ \A k \in DOMAIN config.profiles : config.profiles[k].name = NotAString
    /\ \E i \in Starts :
          /\ startPc[i] = "L170"
          /\ startLocal[i].profile = DefaultProfile

\* C19 (as stated): the persisted list never holds the materialized default
\* profile.
C19_AsStated == DefaultProfile \notin Listed(config.profiles)

\* C20: the active profile is a listed profile named as the configured active
\* name when one is listed, and the first listed profile when none is; it is
\* the profile a start takes.
C20_GetActive ==
    /\ [](LET profiles == getProfiles(config.profiles)
              active == getActiveProfile(config.profiles, config.active)
          IN  IF config.active \in ProfileNames(profiles)
              THEN active \in Listed(profiles) /\ active.name = config.active
              ELSE active = profiles[1])
    /\ [][\A i \in Starts :
             StartFolder(i)
             => LET profiles == getProfiles(config.profiles)
                    taken == startLocal'[i].profile
                IN  IF config.active \in ProfileNames(profiles)
                    THEN taken \in Listed(profiles) /\ taken.name = config.active
                    ELSE taken = profiles[1]
          ]_vars

\* A start has taken the first of two listed profiles because the active
\* name is the name of neither.
C20_Witness ==
    /\ Len(getProfiles(config.profiles)) > 1
    /\ config.active \notin ProfileNames(getProfiles(config.profiles))
    /\ \E i \in Starts :
          /\ startPc[i] = "L170"
          /\ startLocal[i].profile = getProfiles(config.profiles)[1]

\* ---------------------------------------------------------------- C21
\* the persisted profiles that have a name bear pairwise different names
UniqueNames(profiles) ==
    \A i, j \in DOMAIN profiles :
        (profiles[i].name # NotAString /\ profiles[i].name = profiles[j].name)
            => i = j

\* C21: from a persisted list of unique names, every interleaving of the
\* create, edit and delete flows, two forms open at once included, keeps the
\* persisted names unique; a step that refuses a name because it exists
\* leaves the persisted list and the active name as they were.
C21_UniqueNames ==
    /\ [](UniqueNames(config.profiles))
    /\ [][msg' = "exists" => UNCHANGED config]_vars

\* Two forms were open together; the first saved "qa" and is at the await of
\* its save, the second asked for the same name and was refused.
C21_Witness ==
    /\ msg = "exists"
    /\ \E k, j \in DOMAIN selecting :
        /\ selecting[k].pc = "L356"
        /\ selecting[k].name = "qa"
        /\ selecting[j].pc \in {"L346", "L365"}
    /\ Len(SelectSeq(config.profiles, LAMBDA item : item.name = "qa")) = 1

\* ---------------------------------------------------------------- C22
\* the invocation k of selectProfile takes its step from the await at pc
Leaves(k, pc) ==
    /\ selecting[k].pc = pc
    /\ \/ selecting' = Without(selecting, k)
       \/ /\ Len(selecting') = Len(selecting)
          /\ selecting'[k] # selecting[k]

\* the listed profiles in order, those named name left out
OthersInOrder(profiles, name) ==
    LET listed == getProfiles(profiles)
        kept == {i \in DOMAIN listed : listed[i].name # name}
        Rank(i) == Cardinality({j \in kept : j <= i})
    IN  [r \in 1..Cardinality(kept) |->
            listed[CHOOSE i \in kept : Rank(i) = r]]

\* C22: a delete that is not confirmed changes nothing; a confirmed one
\* persists the listed profiles of another name in their order and keeps the
\* active name for the moment; once the list is saved the active name becomes
\* the first name of the list that was persisted, or "default" when that list
\* is empty, if the active name is the deleted name, and is kept otherwise.
C22_Delete ==
    [][\A k \in DOMAIN selecting :
        /\ (Leaves(k, "L405") /\ selecting' = Without(selecting, k))
               => UNCHANGED config
        /\ (Leaves(k, "L405") /\ Len(selecting') = Len(selecting))
               => /\ config'.profiles =
                        OthersInOrder(config.profiles, selecting[k].target)
                  /\ config'.active = config.active
                  /\ selecting'[k].target = selecting[k].target
                  /\ selecting'[k].name =
                        IF config'.profiles = <<>> THEN "default"
                        ELSE config'.profiles[1].name
        /\ Leaves(k, "L415")
               => /\ config'.profiles = config.profiles
                  /\ config'.active =
                        IF config.active = selecting[k].target
                        THEN selecting[k].name ELSE config.active
      ]_vars

\* The active profile "blank" was deleted from dev, blank: the active name
\* fell back to "dev", the first profile that remains.
C22_Witness ==
    /\ \E k \in DOMAIN selecting : selecting[k].pc = "L425"
    /\ config.active = "dev"
    /\ ProfileNames(config.profiles) = {"dev"}

\* ---------------------------------------------------------------- C23
\* C23: every step keeps the extra fields of each persisted profile it keeps:
\* a profile persisted under the same name before and after the step has
\* the same extra fields.
C23_AsStated ==
    [][\A i \in DOMAIN config.profiles, j \in DOMAIN config'.profiles :
          (config.profiles[i].name # NotAString
              /\ config.profiles[i].name = config'.profiles[j].name)
          => config'.profiles[j].extra = config.profiles[i].extra
      ]_vars

\* ---------------------------------------------------------------- C24
\* a call of the resolver that missed the cache returns in this step
Recomputed ==
    /\ Len(resolving') < Len(resolving)
    /\ resolved'.caller # "none"
    /\ ~resolved'.cached

\* the three tiers of candidates of the workspace roots
AppsTier == {d \in Dirs : tree[d] # NoDir /\ \E k \in DOMAIN workspaceFolders :
                dirname(d) = join(workspaceFolders[k], S_apps)}
RootsTier == {workspaceFolders[k] : k \in DOMAIN workspaceFolders}
SearchTier == {d \in Dirs : tree[d] \notin {NoDir, NoManifest}
                /\ \E k \in DOMAIN workspaceFolders :
                        IsAncestor(workspaceFolders[k], d)}

Passing(tier) == {d \in tier : isFlutterProject(d, tree)}

\* the apps/ folder d comes before the apps/ folder e: its root is listed
\* earlier, or it is the same root and its name sorts first
AppsBefore(d, e) ==
    LET RootOf(x) == CHOOSE k \in DOMAIN workspaceFolders :
                        dirname(x) = join(workspaceFolders[k], S_apps)
    IN  \/ RootOf(d) < RootOf(e)
        \/ RootOf(d) = RootOf(e) /\ Before(basename(d), basename(e))

\* C24: a call that missed the cache returns the first passing subfolder of
\* apps/ (roots in workspace order, names in lexicographic order, whatever
\* the active file); when apps/ has none, a passing workspace root; when no
\* root passes, a passing folder of the manifests the search finds; and
\* none only when no candidate passes.
C24_PriorityOrder ==
    [][Recomputed =>
        LET folderPath == resolved'.folderPath
        IN  IF Passing(AppsTier) # {}
            THEN /\ folderPath \in Passing(AppsTier)
                 /\ \A e \in Passing(AppsTier) \ {folderPath} :
                        AppsBefore(folderPath, e)
            ELSE IF Passing(RootsTier) # {}
            THEN folderPath \in Passing(RootsTier)
            ELSE IF Passing(SearchTier) # {}
            THEN folderPath \in Passing(SearchTier)
            ELSE folderPath = NoPath
      ]_vars

\* apps/a holds no Flutter manifest, apps/b and the root do: the call
\* returned apps/b.
C24_Witness ==
    /\ resolved.caller # "none"
    /\ ~resolved.cached
    /\ resolved.folderPath = D_wb
    /\ tree = T_mono
    /\ activePath # NoPath

\* ---------------------------------------------------------------- C25
\* C25: a result is reused by every call of its key made less than 5 seconds
\* after it was computed: as long as it is less than 5 seconds old it stays
\* the cached result of its key, and its age counts from the time it was
\* computed, which is the time it was stored.
C25_AsStated ==
    /\ [][(cachedFlutterProjectFolder # <<>>
             /\ clock' - cachedFlutterProjectFolder[1].resolvedAt < CacheTtlMs)
          => /\ cachedFlutterProjectFolder'[1].key = cachedFlutterProjectFolder[1].key
             /\ cachedFlutterProjectFolder'[1].folderPath
                    = cachedFlutterProjectFolder[1].folderPath
         ]_vars
    /\ [][cachedFlutterProjectFolder' # cachedFlutterProjectFolder
          => cachedFlutterProjectFolder'[1].resolvedAt = clock'
         ]_vars

\* a call of the resolver is made in this step, with workspace folders open
Called ==
    /\ workspaceFolders # <<>>
    /\ \/ Len(resolving') > Len(resolving)
       \/ Len(resolving') = Len(resolving) /\ resolved'.caller # "none"

\* the result stored last has the key of the workspace roots and the active
\* file, and the call that computed it was made less than 5 seconds ago
Reusable ==
    /\ cachedFlutterProjectFolder # <<>>
    /\ cachedFlutterProjectFolder[1].key = cacheKey(workspaceFolders, activePath)
    /\ clock - cachedFlutterProjectFolder[1].resolvedAt < CacheTtlMs

\* C25 (amended): the result stored last is reused by every call made less
\* than 5 seconds after the call that computed it, with the same workspace
\* roots and the same active file, whatever the disk holds by then; a call
\* with another key, or made 5 seconds or more after that call, reads the
\* disk again and stores what it finds under its own key and the time at
\* which it was made.  Different roots or active files give different keys.
C25_CacheReuse ==
    /\ [](\A r, q \in RootLists : \A a, b \in ActivePaths :
            cacheKey(r, a) = cacheKey(q, b) => r = q /\ a = b)
    /\ [][(Called /\ Reusable)
            => /\ resolved'.cached
               /\ resolved'.folderPath = cachedFlutterProjectFolder[1].folderPath
               /\ UNCHANGED <<cachedFlutterProjectFolder, resolving>>
         ]_vars
    /\ [][(Called /\ ~Reusable)
            => /\ resolved' = NoReturn
               /\ Len(resolving') = Len(resolving) + 1
               /\ resolving'[Len(resolving')].now = clock
               /\ resolving'[Len(resolving')].key
                      = cacheKey(workspaceFolders, activePath)
               /\ UNCHANGED cachedFlutterProjectFolder
         ]_vars
    /\ [][Recomputed
            => \E k \in DOMAIN resolving :
                  /\ resolving' = Without(resolving, k)
                  /\ cachedFlutterProjectFolder' =
                        <<[key |-> resolving[k].key,
                           resolvedAt |-> resolving[k].now,
                           folderPath |-> resolved'.folderPath]>>
         ]_vars

\* A cached folder was returned although its manifest no longer passes the
\* test: the disk changed after the result was stored.
C25_Witness ==
    /\ resolved.cached
    /\ resolved.folderPath # NoPath
    /\ ~isFlutterProject(resolved.folderPath, tree)
    /\ clock > cachedFlutterProjectFolder[1].resolvedAt

DeclaresFlutter == {M_section, M_inline, M_block, M_web}

\* C27: a folder passes the manifest test exactly when its manifest can be
\* read and has a top-level flutter section or a flutter /
\* flutter_web_plugins entry whose value holds sdk: flutter.
C27_AsStated ==
    \A d \in Dirs : isFlutterProject(d, tree) <=> tree[d] \in DeclaresFlutter

\* ------------------------------------------------- resolveSelectedDeviceId
\* One call of lines 730-761 by its awaits: the primary host command (line
\* 732), the secondary one (line 741), then the two configuration keys read
\* in one stretch (lines 749-760).
DeviceFrame ==
    UNCHANGED <<runProcess, isRunStarting, session, ctx, proc, out, tasks,
                store, scanning, reload, project, lastAccepted, stopShown>>

DeviceBegin ==
    /\ deviceCall.pc \in {"idle", "done"}
    /\ deviceCall' = [NoDeviceCall EXCEPT !.pc = "primary"]
    /\ DeviceFrame

DevicePrimaryDone(value) ==
    /\ deviceCall.pc = "primary"
    /\ deviceCall' =
          IF CommandDevice(value) # Undef
          THEN [deviceCall EXCEPT !.pc = "done", !.primary = value,
                                  !.result = CommandDevice(value)]
          ELSE [deviceCall EXCEPT !.pc = "secondary", !.primary = value]
    /\ DeviceFrame

DeviceSecondaryDone(value, flutterDeviceId, deviceId) ==
    /\ deviceCall.pc = "secondary"
    /\ deviceCall' =
          IF CommandDevice(value) # Undef
          THEN [deviceCall EXCEPT !.pc = "done", !.secondary = value,
                                  !.result = CommandDevice(value)]
          ELSE [deviceCall EXCEPT
                   !.pc = "done", !.secondary = value,
                   !.flutterDeviceId = flutterDeviceId, !.deviceId = deviceId,
                   !.result = IF ConfigDevice(flutterDeviceId) # Undef
                              THEN ConfigDevice(flutterDeviceId)
                              ELSE ConfigDevice(deviceId)]
    /\ DeviceFrame

NextDevice ==
    \/ DeviceBegin
    \/ \E value \in CommandResults : DevicePrimaryDone(value)
    \/ \E value \in CommandResults, flutterDeviceId, deviceId \in ConfigValues :
          DeviceSecondaryDone(value, flutterDeviceId, deviceId)

SpecDevice == Init /\ [][NextDevice]_vars

\* A source yields when it is a string with a character that is not white
\* space; a rejected command and a value that is no string do not.
Yields(value) ==
    /\ value \notin {Throw, Undef}
    /\ \E i \in 1..Len(value) : value[i] \notin WhiteSpace

\* the value without the white space at its two ends
Trimmed(value) ==
    LET inside == {i \in 1..Len(value) : value[i] \notin WhiteSpace}
        first == CHOOSE i \in inside : \A j \in inside : i <= j
        last == CHOOSE i \in inside : \A j \in inside : j <= i
    IN  SubSeq(value, first, last)

\* the sources of a finished call, in the order they were asked
DeviceSources ==
    <<deviceCall.primary, deviceCall.secondary,
      deviceCall.flutterDeviceId, deviceCall.deviceId>>

\* C28: a finished device resolution returns the trimmed value of the first
\* source that yields a non-blank string, in the order primary command,
\* secondary command, flutterDeviceId, deviceId; failing commands and
\* non-strings are skipped, and it returns none only if no source yields.
C28_FirstSource ==
    deviceCall.pc = "done" =>
        LET yielding == {k \in 1..4 : Yields(DeviceSources[k])}
        IN  IF yielding = {}
            THEN deviceCall.result = Undef
            ELSE LET k == CHOOSE k \in yielding : \A l \in yielding : k <= l
                 IN  /\ deviceCall.result = Trimmed(DeviceSources[k])
                     /\ deviceCall.result # Undef

\* A call whose two commands fail and whose first key is blank returns the
\* trimmed second key.
C28_Witness ==
    /\ deviceCall.pc = "done"
    /\ deviceCall.primary = Throw
    /\ deviceCall.secondary = <<" ">>
    /\ deviceCall.flutterDeviceId = <<" ">>
    /\ deviceCall.deviceId = <<"m", "a", "c", "o", "s">>
    /\ deviceCall.result = <<"m", "a", "c", "o", "s">>

\* C29 as stated: no public operation passes a fault to its caller, whatever
\* collaborator command fails.
C29_AsStated == thrown = "none"

\* C30 as stated: the close or error event of a process that is not the one
\* the handle names (a process stopped earlier, whose event comes after a new
\* session began) neither kills the process of the new session nor clears
\* the handle or a session field.
C30_AsStated ==
    [][ \A p \in Procs :
          /\ ProcClose(p) \/ ProcError(p)
          /\ runProcess # None
          /\ runProcess # p
          => /\ runProcess' = runProcess
             /\ UNCHANGED session
             /\ proc'[runProcess].killed = proc[runProcess].killed
      ]_vars

\* C31 as stated: whenever no start, no stop and no process-event handler is
\* in progress, the is-running signal tells whether a process handle is held.
C31_AsStated == Quiescent => (ctxRunning <=> runProcess # None)

\* C32 as stated: a start spawns no process once a stop was requested while
\* it was resolving; only a run request made after the stop spawns again.
C32_AsStated ==
    [][ \A i \in Starts : StartSpawn(i) => ~startLocal[i].stopAsked ]_vars

\* the processes that have not exited
Alive == {p \in Procs : proc[p].state = "alive"}

\* C33 as stated: at most one process the controller spawned has not exited.
C33_AsStated == Cardinality(Alive) <= 1

\* C33 amended: at most one process has neither exited nor been sent the
\* termination signal, and it is the one the handle names; a process that
\* was sent the signal may still be alive when the next one is spawned.
C33_OneUnsignalled ==
    /\ \A p \in Alive : ~proc[p].killed => runProcess = p
    /\ Cardinality({p \in Alive : ~proc[p].killed}) <= 1

\* the process of a new session lives beside a stopped one that has not exited
C33_Witness ==
    \E p, q \in Alive :
        /\ proc[p].killed /\ runProcess # p
        /\ ~proc[q].killed /\ runProcess = q

\* C34 as stated: whenever no process handle is held and no handler is in
\* progress, both URLs are unknown, the has-DevTools-URL signal is false and
\* the preview latch is false.
C34_AsStated ==
    runProcess = None /\ Quiescent /\ scanning = <<>> =>
        /\ latestDevToolsUrl = NoUrl
        /\ latestWebAppUrl = NoUrl
        /\ ~ctxHasDevToolsUrl
        /\ ~hasOpenedWebPreviewForRun

\* C35 as stated: once every chunk delivered so far has been processed, the
\* stored DevTools URL is the URL of the last accepting line of the last
\* chunk that had one (of those received since the stored URL was cleared).
C35_AsStated ==
    scanning = <<>> /\ lastAccepted # NoUrl => latestDevToolsUrl = lastAccepted

\* C36 as stated: with a process handle held, once the status refresh that
\* closes the start and every other handler have finished, the Stop control
\* is shown.
C36_AsStated == Quiescent /\ runProcess # None => stopShown

\* C37: every start leaves the starting state once its host calls return,
\* whether it aborts, spawns, or a collaborator command or the read of the
\* handle fails; the starting flag does not stay set.
C37_LeavesStarting ==
    /\ isRunStarting ~> ~isRunStarting
    /\ \A i \in Starts : (startPc[i] # "idle") ~> (startPc[i] = "idle")

\* a start whose collaborator command failed has left the starting state
C37_Witness ==
    /\ thrown = "flutter.selectDevice"
    /\ ~isRunStarting /\ ~ctxStarting
    /\ StartsInFlight = {}

\* The profiles an edit of target leaves alone keep their position and
\* content in the list getProfiles reads
OthersKept(target) ==
    LET before == getProfiles(config.profiles)
        after == getProfiles(config'.profiles)
    IN  /\ Len(after) = Len(before)
        /\ \A j \in DOMAIN before :
               before[j].name # target => after[j] = before[j]

\* C38 as stated: the save of an edit (line 382) leaves every other profile
\* where and as it was, and when the edit is through (the active name is
\* read at line 383 and written or left) get-active returns the edited
\* profile exactly when it returned the edit target before the save.
C38_AsStated ==
    [][ \A k \in DOMAIN selecting :
          /\ (\E payload \in FormPayloads : FormEdit(k, FormResult(payload)))
                 => OthersKept(selecting[k].target)
          /\ EditSaved(k) =>
                 (getActiveProfile(config'.profiles, config'.active).name
                      = selecting[k].name
                  <=> selecting[k].wasActive)
      ]_vars

\* the candidate lists tier 3 may be given: the folders of the manifests
\* findFiles lists, in the order it lists them
NestedGiven ==
    {[k \in DOMAIN listing |-> dirname(listing[k])] :
        listing \in Orders(PubspecFiles(workspaceFolders, tree))}

\* The candidates are tested in an order that puts the folders the active
\* file lies in before the others, the longer first; in the given order when
\* no file is active.
TestedInOrder(given) ==
    LET tested == sortPathsByActiveFile(given, activePath)
        Holds(folder) == IsAncestor(folder, activePath)
    IN  IF activePath = NoPath THEN tested = given
        ELSE /\ Len(tested) = Len(given)
             /\ \A i, j \in DOMAIN tested :
                    /\ Holds(tested[i]) /\ ~Holds(tested[j]) => i < j
                    /\ Holds(tested[i]) /\ Holds(tested[j])
                           /\ Len(tested[i]) > Len(tested[j]) => i < j

\* C39 as stated: the workspace roots (tier 2) and the folders of the
\* manifests found (tier 3) are tested with every folder that is the active
\* file's path or holds it before every folder that does not, the longer
\* first; without an active file in the given order.
C39_AsStated ==
    /\ TestedInOrder(workspaceFolders)
    /\ \A given \in NestedGiven : TestedInOrder(given)

====
